---- MODULE Spec2Model ----
(***************************************************************************)
(* Model of the template-driven annotation import parser of LabelHub       *)
(* (backend/app/services/parser.py, class ParserService).                  *)
(*                                                                         *)
(* A decoded JSON value is a record [t, s, n, items]: t is its type,       *)
(* s its text (strings), n its number (int and float), items its elements  *)
(* (lists).  A record of a batch is represented by what the compiled       *)
(* JMESPath expressions of the template return on it: image_key, the       *)
(* annotations list, and per annotation label, score, bbox and polygon.    *)
(***************************************************************************)
EXTENDS Integers, Sequences, FiniteSets, TLC

VARIABLES template, outcome, call, batch, ret, exc, errors, decoded, mapped,
          projectRows, labelRows, itemRows, annRows, eventRows, templateRows,
          userRows, response

\* template: the template the service was constructed with
\* outcome:  "ready", or how the call ended: "returned" or "raised"
\* call:     the entry point called and its arguments
\* batch:    the records list handed to _parse_records
\* ret:      the value returned to the caller
\* exc:      the message of the exception raised to the caller
\* errors:   the errors list of _parse_records when it returns
\* decoded:  the line numbers json.loads was called on
\* mapped:   the record indices _parse_single_record was called on
\* projectRows:  the ids of the rows of table projects
\* labelRows:    the rows of table labels, in the order they were inserted
\* itemRows:     the rows of table items, by id
\* annRows:      the rows of tables bbox_annotations and polygon_annotations
\* eventRows:    the rows of table annotation_events, in the order written
\* templateRows: the rows of table parser_templates
\* userRows:     the rows of table users
\* response:     the answer of the API to the last request
vars == <<template, outcome, call, batch, ret, exc, errors, decoded, mapped,
          projectRows, labelRows, itemRows, annRows, eventRows, templateRows,
          userRows, response>>

\* the state of the parser service, and the state of the database and API
\* (call holds the request of the API as it holds the call of the parser)
idle == <<template, outcome, batch, ret, exc, errors, decoded, mapped>>
tables == <<projectRows, labelRows, itemRows, annRows, eventRows, templateRows,
            userRows, response>>

\* no request was answered yet
NoResponse == [status |-> 0]

\* a database with no rows
NoTables ==
    /\ projectRows = {}
    /\ labelRows = <<>>
    /\ itemRows = <<>>
    /\ annRows = {}
    /\ eventRows = <<>>
    /\ templateRows = {}
    /\ userRows = {}
    /\ response = NoResponse

----------------------------------------------------------------------------
(* Bounds of the model *)

\* longest JSONL text, in lines
MaxLines == 3
\* longest annotations list of the record the mapper is exercised on
MaxAnns == 2
\* largest coordinate of a bbox handed to the Geometry Normalizer
MaxCoord == 3
\* longest polygon handed to the Geometry Normalizer, in elements
MaxPoints == 4
\* longest records array of a JSON document
MaxRecords == 2
\* largest max_records a caller passes
MaxCap == 2

(* Program constants *)

MAX_EXPRESSION_TIME_MS == 100

----------------------------------------------------------------------------
(* JSON values *)

Null == [t |-> "null", s |-> "", n |-> 0, items |-> <<>>]
\* a JSON integer
NumV(k) == [t |-> "num", s |-> "", n |-> k, items |-> <<>>]
\* a Python float of integral value k: a JSON number written with a fraction,
\* or the result of float()
FloatV(k) == [t |-> "float", s |-> "", n |-> k, items |-> <<>>]
StrV(x) == [t |-> "str", s |-> x, n |-> 0, items |-> <<>>]
ListV(xs) == [t |-> "list", s |-> "", n |-> 0, items |-> xs]
\* a non-empty JSON object (dict)
ObjV == [t |-> "obj", s |-> "", n |-> 0, items |-> <<>>]

\* Python truth value of a decoded JSON value (`if x:` / `if not x:`)
Truthy(v) ==
    CASE v.t = "null" -> FALSE
      [] v.t \in {"num", "float"} -> v.n # 0
      [] v.t = "str" -> v.s # ""
      [] v.t = "list" -> v.items # <<>>
      [] OTHER -> TRUE

\* Python str(v)
PyStr(v) ==
    CASE v.t = "str" -> v.s
      [] v.t = "num" -> ToString(v.n)
      [] v.t = "float" -> ToString(v.n) \o ".0"
      [] v.t = "null" -> "None"
      [] OTHER -> "<repr>"

\* the strings float() accepts, with their values
NumericStr == [x \in {"7"} |-> 7]

\* float(v) succeeds
CanFloat(v) == \/ v.t \in {"num", "float"}
               \/ v.t = "str" /\ v.s \in DOMAIN NumericStr

\* float(v), for a value float() accepts
FloatOf(v) == IF v.t \in {"num", "float"} THEN v.n ELSE NumericStr[v.s]

----------------------------------------------------------------------------
(* Geometry Normalizer.  Coordinates are kept in half units (twice the     *)
(* value), so that cx - w/2 is exact on integer inputs.                    *)

NoBox == [x |-> 0, y |-> 0, width |-> 0, height |-> 0]

Coords(data) == [i \in 1..4 |-> FloatOf(data.items[i])]

\* BoxXyxy with the far corner taken for the size
BoxXyxyNoDifference(c) ==
    [x |-> 2 * c[1], y |-> 2 * c[2], width |-> 2 * c[3], height |-> 2 * c[4]]

\* {"x": x1, "y": y1, "width": x2 - x1, "height": y2 - y1}
BoxXyxy(c) ==
    [x |-> 2 * c[1], y |-> 2 * c[2],
     width |-> 2 * (c[3] - c[1]), height |-> 2 * (c[4] - c[2])]

\* {"x": x, "y": y, "width": w, "height": h}
BoxXywh(c) ==
    [x |-> 2 * c[1], y |-> 2 * c[2], width |-> 2 * c[3], height |-> 2 * c[4]]

\* BoxCxcywh with the whole size taken off the center
BoxCxcywhWholeSize(c) ==
    [x |-> 2 * (c[1] - c[3]), y |-> 2 * (c[2] - c[4]),
     width |-> 2 * c[3], height |-> 2 * c[4]]

\* {"x": cx - w/2, "y": cy - h/2, "width": w, "height": h}
BoxCxcywh(c) ==
    [x |-> 2 * c[1] - c[3], y |-> 2 * c[2] - c[4],
     width |-> 2 * c[3], height |-> 2 * c[4]]

\* _parse_bbox: normalized is a parameter the body never reads
ParseBbox(data, format, normalized) ==
    IF data.t # "list" \/ Len(data.items) < 4
    THEN [raised |-> FALSE, none |-> TRUE, box |-> NoBox]
    ELSE IF \E i \in 1..4 : ~CanFloat(data.items[i])
    THEN [raised |-> TRUE, none |-> TRUE, box |-> NoBox]
    ELSE LET c == Coords(data) IN
      CASE format = "xyxy" -> [raised |-> FALSE, none |-> FALSE, box |-> BoxXyxy(c)]
        [] format = "xywh" -> [raised |-> FALSE, none |-> FALSE, box |-> BoxXywh(c)]
        [] format = "cxcywh" -> [raised |-> FALSE, none |-> FALSE, box |-> BoxCxcywh(c)]
        [] OTHER -> [raised |-> FALSE, none |-> TRUE, box |-> NoBox]

\* FlatPoints with the two coordinates of every point exchanged
FlatPointsSwapped(items) ==
    [k \in 1..(Len(items) \div 2) |-> <<items[2 * k], items[2 * k - 1]>>]

\* [[data[i], data[i+1]] for i in range(0, len(data), 2)]
FlatPoints(items) ==
    [k \in 1..(Len(items) \div 2) |-> <<items[2 * k - 1], items[2 * k]>>]

\* len(p) is defined (p is a list, a string or an object); a non-empty string
\* of the model has two characters or more, none of them a digit
HasLen(p) == p.t \in {"list", "str", "obj"}

PyLen(p) == CASE p.t = "list" -> Len(p.items)
              [] p.t = "str" -> IF p.s = "" THEN 0 ELSE 2
              [] OTHER -> 1

RECURSIVE NestedPoints(_)
\* [[float(p[0]), float(p[1])] for p in data if len(p) >= 2], for data on
\* which the comprehension does not raise
NestedPoints(items) ==
    IF items = <<>> THEN <<>>
    ELSE LET p == Head(items) IN
         IF PyLen(p) >= 2
         THEN <<<<FloatV(FloatOf(p.items[1])), FloatV(FloatOf(p.items[2]))>>>>
                  \o NestedPoints(Tail(items))
         ELSE NestedPoints(Tail(items))

\* the comprehension of the nested format raises on this element
NestedElemRaises(p) ==
    \/ ~HasLen(p)
    \/ PyLen(p) >= 2 /\ (p.t # "list" \/ ~CanFloat(p.items[1]) \/ ~CanFloat(p.items[2]))

\* ParsePolygon with the flat format asking for an even length only
ParsePolygonNoMinimum(data, format) ==
    IF data.t # "list"
    THEN [raised |-> FALSE, none |-> TRUE, points |-> <<>>]
    ELSE CASE format = "flat" ->
               IF Len(data.items) % 2 # 0
               THEN [raised |-> FALSE, none |-> TRUE, points |-> <<>>]
               ELSE [raised |-> FALSE, none |-> FALSE, points |-> FlatPoints(data.items)]
           [] format = "nested" ->
               IF Len(data.items) < 3
               THEN [raised |-> FALSE, none |-> TRUE, points |-> <<>>]
               ELSE IF \E i \in 1..Len(data.items) : NestedElemRaises(data.items[i])
               THEN [raised |-> TRUE, none |-> TRUE, points |-> <<>>]
               ELSE [raised |-> FALSE, none |-> FALSE, points |-> NestedPoints(data.items)]
           [] OTHER -> [raised |-> FALSE, none |-> TRUE, points |-> <<>>]

ParsePolygon(data, format) ==
    IF data.t # "list"
    THEN [raised |-> FALSE, none |-> TRUE, points |-> <<>>]
    ELSE CASE format = "flat" ->
               IF Len(data.items) < 6 \/ Len(data.items) % 2 # 0
               THEN [raised |-> FALSE, none |-> TRUE, points |-> <<>>]
               ELSE [raised |-> FALSE, none |-> FALSE, points |-> FlatPoints(data.items)]
           [] format = "nested" ->
               IF Len(data.items) < 3
               THEN [raised |-> FALSE, none |-> TRUE, points |-> <<>>]
               ELSE IF \E i \in 1..Len(data.items) : NestedElemRaises(data.items[i])
               THEN [raised |-> TRUE, none |-> TRUE, points |-> <<>>]
               ELSE [raised |-> FALSE, none |-> FALSE, points |-> NestedPoints(data.items)]
           [] OTHER -> [raised |-> FALSE, none |-> TRUE, points |-> <<>>]

----------------------------------------------------------------------------
(* Record Mapper *)

\* PredictionItem(type="bbox" | "polygon", label=str(label), score, data)
PredictionItem(type, label, score, data) ==
    [type |-> type, label |-> PyStr(label), score |-> score, data |-> data]

\* Prediction(image_key=str(image_key), predictions)
Prediction(image_key, items) ==
    [image_key |-> PyStr(image_key), predictions |-> items]

\* what a call of the mapper does: raise, return None, or return a Prediction
Raise(msg) == [raised |-> TRUE, error |-> msg, none |-> TRUE, prediction |-> Prediction(Null, <<>>)]
ReturnNone == [raised |-> FALSE, error |-> "", none |-> TRUE, prediction |-> Prediction(Null, <<>>)]
Return(p) == [raised |-> FALSE, error |-> "", none |-> FALSE, prediction |-> p]

\* the score of one annotation: None when no score expression is configured
\* or it finds nothing, float(score) otherwise
ScoreRaises(tpl, ann) == tpl.score /\ ann.score.t # "null" /\ ~CanFloat(ann.score)
ScoreOf(tpl, ann) ==
    IF tpl.score /\ ann.score.t # "null" THEN FloatV(FloatOf(ann.score)) ELSE Null

\* the bbox step of one annotation
BboxStep(tpl, ann) ==
    IF tpl.bbox /\ Truthy(ann.bbox)
    THEN ParseBbox(ann.bbox, tpl.bbox_format, tpl.bbox_normalized)
    ELSE [raised |-> FALSE, none |-> TRUE, box |-> NoBox]

\* the polygon step of one annotation
PolygonStep(tpl, ann) ==
    IF tpl.polygon /\ Truthy(ann.polygon)
    THEN ParsePolygon(ann.polygon, tpl.polygon_format)
    ELSE [raised |-> FALSE, none |-> TRUE, points |-> <<>>]

\* AnnItems with the polygon item appended before the bbox item
AnnItemsPolygonFirst(tpl, ann) ==
    LET b == BboxStep(tpl, ann)
        p == PolygonStep(tpl, ann)
    IN  (IF p.none THEN <<>>
         ELSE <<PredictionItem("polygon", ann.label, ScoreOf(tpl, ann),
                               [points |-> p.points])>>)
        \o
        (IF b.none THEN <<>>
         ELSE <<PredictionItem("bbox", ann.label, ScoreOf(tpl, ann), b.box)>>)

\* the items one annotation appends, when none of its steps raises
AnnItems(tpl, ann) ==
    LET b == BboxStep(tpl, ann)
        p == PolygonStep(tpl, ann)
    IN  (IF b.none THEN <<>>
         ELSE <<PredictionItem("bbox", ann.label, ScoreOf(tpl, ann), b.box)>>)
        \o
        (IF p.none THEN <<>>
         ELSE <<PredictionItem("polygon", ann.label, ScoreOf(tpl, ann),
                               [points |-> p.points])>>)

\* LabelSkipped with only the absent label skipped
LabelSkippedNullOnly(label) == label.t = "null"

\* the label test of the annotation loop: `if not label: continue`
LabelSkipped(label) == ~Truthy(label)

\* TimedOut with the time measured from the start of the batch (clock 0)
TimedOutSinceBatch(start_time, now) == now > MAX_EXPRESSION_TIME_MS

\* the timeout check of an iteration, clock readings in ms:
\* `(time.time() - start_time) * 1000 > self.MAX_EXPRESSION_TIME_MS`
TimedOut(start_time, now) == now - start_time > MAX_EXPRESSION_TIME_MS

RECURSIVE AnnLoop(_, _, _, _)
\* the annotation loop of _parse_single_record, prediction_items = acc;
\* ann.clock is what time.time() reads at the top of the annotation's iteration
AnnLoop(tpl, start_time, anns, acc) ==
    IF anns = <<>> THEN [raised |-> FALSE, error |-> "", items |-> acc]
    ELSE LET ann == Head(anns) IN
         IF TimedOut(start_time, ann.clock)
         THEN [raised |-> TRUE, error |-> "Expression timeout exceeded", items |-> <<>>]
         ELSE IF LabelSkipped(ann.label) THEN AnnLoop(tpl, start_time, Tail(anns), acc)
         ELSE IF ScoreRaises(tpl, ann)
         THEN [raised |-> TRUE, error |-> "could not convert to float", items |-> <<>>]
         ELSE IF BboxStep(tpl, ann).raised
         THEN [raised |-> TRUE, error |-> "could not convert to float", items |-> <<>>]
         ELSE IF PolygonStep(tpl, ann).raised
         THEN [raised |-> TRUE, error |-> "invalid polygon element", items |-> <<>>]
         ELSE AnnLoop(tpl, start_time, Tail(anns), acc \o AnnItems(tpl, ann))

\* the image-key test: `if not image_key: return None`
KeySkipped(image_key) == ~Truthy(image_key)

\* ParseSingleRecord with a missing image key raised as an error of the record
ParseSingleRecordStrict(tpl, record) ==
    IF KeySkipped(record.image_key) THEN Raise("record has no image key")
    ELSE IF record.annotations.t # "list" \/ record.annotations.items = <<>>
    THEN Return(Prediction(record.image_key, <<>>))
    ELSE LET r == AnnLoop(tpl, record.start_time, record.annotations.items, <<>>) IN
         IF r.raised THEN Raise(r.error)
         ELSE Return(Prediction(record.image_key, r.items))

ParseSingleRecord(tpl, record) ==
    IF KeySkipped(record.image_key) THEN ReturnNone
    ELSE IF record.annotations.t # "list" \/ record.annotations.items = <<>>
    THEN Return(Prediction(record.image_key, <<>>))
    ELSE LET r == AnnLoop(tpl, record.start_time, record.annotations.items, <<>>) IN
         IF r.raised THEN Raise(r.error)
         ELSE Return(Prediction(record.image_key, r.items))

----------------------------------------------------------------------------
(* Batch Driver *)

\* OnRecordError with the loop ended at the first record that raises
OnRecordErrorAbort(st, idx, msg, rest) ==
    [predictions |-> st.predictions,
     errors |-> Append(st.errors, [index |-> idx, error |-> msg]),
     mapped |-> Append(st.mapped, idx),
     rest |-> <<>>]

\* the except clause of the record loop: errors.append({index, error}) and
\* the loop goes on with the next record
OnRecordError(st, idx, msg, rest) ==
    [predictions |-> st.predictions,
     errors |-> Append(st.errors, [index |-> idx, error |-> msg]),
     mapped |-> Append(st.mapped, idx),
     rest |-> rest]

RECURSIVE RecordLoop(_, _, _)
\* for idx, record in enumerate(records): st holds the predictions and the
\* errors so far, the indices the mapper was called on, and the records left
RecordLoop(tpl, st, idx) ==
    IF st.rest = <<>> THEN st
    ELSE LET r == ParseSingleRecord(tpl, Head(st.rest)) IN
         IF r.raised
         THEN RecordLoop(tpl, OnRecordError(st, idx, r.error, Tail(st.rest)), idx + 1)
         ELSE RecordLoop(tpl,
                  [predictions |-> IF r.none THEN st.predictions
                                   ELSE Append(st.predictions, r.prediction),
                   errors |-> st.errors,
                   mapped |-> Append(st.mapped, idx),
                   rest |-> Tail(st.rest)],
                  idx + 1)

\* _parse_records: the final predictions and errors lists and the indices mapped
ParseRecords(tpl, records) ==
    RecordLoop(tpl, [predictions |-> <<>>, errors |-> <<>>, mapped |-> <<>>,
                     rest |-> records], 0)

\* the value _parse_records returns: `return predictions`
ReturnValue(r) == [predictions |-> r.predictions]

----------------------------------------------------------------------------
(* JSONL mode *)

BlankLine == [kind |-> "blank"]
\* a non-blank line that is not valid JSON
BadLine == [kind |-> "bad"]
\* a line holding the JSON text of a record
JsonLine(r) == [kind |-> "json", record |-> r]

RECURSIVE DropLeadingBlank(_)
DropLeadingBlank(lines) ==
    IF lines # <<>> /\ Head(lines).kind = "blank"
    THEN DropLeadingBlank(Tail(lines)) ELSE lines

RECURSIVE Reverse(_)
Reverse(xs) == IF xs = <<>> THEN <<>> ELSE Append(Reverse(Tail(xs)), Head(xs))

\* data.strip().split('\n'): the whitespace around the text goes, blank lines
\* at both ends with it; a text of blank lines alone is one empty line
StripSplit(lines) ==
    LET kept == Reverse(DropLeadingBlank(Reverse(DropLeadingBlank(lines))))
    IN  IF kept = <<>> THEN <<BlankLine>> ELSE kept

\* max_records of a call: None, or a number
NoCap == [some |-> FALSE, n |-> 0]
Cap(k) == [some |-> TRUE, n |-> k]

\* CapReached with the comparison off by one
CapReachedOffByOne(max_records, count) ==
    max_records.some /\ max_records.n # 0 /\ count > max_records.n

\* `if max_records and len(records) >= max_records: break`
CapReached(max_records, count) ==
    max_records.some /\ max_records.n # 0 /\ count >= max_records.n

RECURSIVE LineLoopSkipBad(_, _, _, _, _)
\* LineLoop with a malformed line passed over instead of raised
LineLoopSkipBad(lines, max_records, line_num, records, loaded) ==
    IF lines = <<>> \/ CapReached(max_records, Len(records))
    THEN [raised |-> FALSE, line |-> 0, records |-> records, decoded |-> loaded]
    ELSE LET line == Head(lines) IN
         CASE line.kind = "blank" ->
                LineLoopSkipBad(Tail(lines), max_records, line_num + 1, records, loaded)
           [] line.kind = "bad" ->
                LineLoopSkipBad(Tail(lines), max_records, line_num + 1, records,
                                Append(loaded, line_num))
           [] OTHER ->
                LineLoopSkipBad(Tail(lines), max_records, line_num + 1,
                                Append(records, line.record), Append(loaded, line_num))

RECURSIVE LineLoop(_, _, _, _, _)
\* for line_num, line in enumerate(lines, 1): records and the line numbers
\* json.loads was called on so far
LineLoop(lines, max_records, line_num, records, loaded) ==
    IF lines = <<>> \/ CapReached(max_records, Len(records))
    THEN [raised |-> FALSE, line |-> 0, records |-> records, decoded |-> loaded]
    ELSE LET line == Head(lines) IN
         CASE line.kind = "blank" ->
                LineLoop(Tail(lines), max_records, line_num + 1, records, loaded)
           [] line.kind = "bad" ->
                [raised |-> TRUE, line |-> line_num, records |-> records,
                 decoded |-> Append(loaded, line_num)]
           [] OTHER ->
                LineLoop(Tail(lines), max_records, line_num + 1,
                         Append(records, line.record), Append(loaded, line_num))

\* the decoding loop of parse_jsonl
DecodeLines(data, max_records) ==
    LineLoop(StripSplit(data), max_records, 1, <<>>, <<>>)

----------------------------------------------------------------------------
(* JSON mode *)

\* a text that is not a JSON document
BadDoc == [valid |-> FALSE]
\* a document whose root is an array of records; a record path finds nothing in it
ArrayDoc(rs) == [valid |-> TRUE, root |-> "list", items |-> rs,
                 at |-> [t |-> "null", items |-> <<>>]]
\* a document whose root is one object: r is what the template's expressions
\* find in it, at what the record path finds in it
ObjectDoc(r, at) == [valid |-> TRUE, root |-> "obj", self |-> r, at |-> at]

\* ExtractRecords with a record path result that is no array taken as no records
ExtractRecordsLenient(doc, record_path) ==
    IF Truthy(record_path)
    THEN [raised |-> FALSE,
          records |-> IF doc.at.t = "list" THEN doc.at.items ELSE <<>>]
    ELSE [raised |-> FALSE,
          records |-> IF doc.root = "list" THEN doc.items ELSE <<doc.self>>]

\* the records of a decoded document; raised when the record path does not
\* return an array
ExtractRecords(doc, record_path) ==
    IF Truthy(record_path)
    THEN IF doc.at.t # "list"
         THEN [raised |-> TRUE, records |-> <<>>]
         ELSE [raised |-> FALSE, records |-> doc.at.items]
    ELSE [raised |-> FALSE,
          records |-> IF doc.root = "list" THEN doc.items ELSE <<doc.self>>]

----------------------------------------------------------------------------
(* Inputs *)

\* the mapping of builtin templates, as _compile_expressions reads it
TEMPLATE_COCO ==
    [name |-> "builtin_coco", score |-> FALSE,
     bbox |-> TRUE, bbox_format |-> "xywh", bbox_normalized |-> FALSE,
     polygon |-> TRUE, polygon_format |-> "flat"]
TEMPLATE_YOLO ==
    [name |-> "builtin_yolo", score |-> FALSE,
     bbox |-> TRUE, bbox_format |-> "cxcywh", bbox_normalized |-> TRUE,
     polygon |-> FALSE, polygon_format |-> "flat"]
TEMPLATE_GENERIC_DETECTION ==
    [name |-> "generic_detection", score |-> TRUE,
     bbox |-> TRUE, bbox_format |-> "xyxy", bbox_normalized |-> FALSE,
     polygon |-> FALSE, polygon_format |-> "flat"]

\* the templates the service is constructed with
Templates == {TEMPLATE_COCO, TEMPLATE_GENERIC_DETECTION}

Box(a, b, c, d) == ListV(<<NumV(a), NumV(b), NumV(c), NumV(d)>>)
Triangle == ListV(<<NumV(0), NumV(0), NumV(4), NumV(0), NumV(0), NumV(6)>>)

\* an annotation: what the label, score, bbox and polygon expressions find on
\* it, and the clock (ms) the timeout check of its iteration reads
Ann(label, score, bbox, polygon, clock) ==
    [label |-> label, score |-> score, bbox |-> bbox, polygon |-> polygon,
     clock |-> clock]

AnnCat == Ann(StrV("cat"), NumV(1), Box(10, 10, 50, 60), Null, 0)
AnnDog == Ann(StrV("dog"), Null, Box(0, 0, 4, 6), Triangle, 0)
AnnNoLabel == Ann(Null, StrV("high"), Box(1, 1, 2, 2), Null, 0)
AnnEmptyLabel == Ann(StrV(""), Null, Box(1, 1, 2, 2), Null, 0)
AnnZeroLabel == Ann(NumV(0), Null, Box(1, 1, 2, 2), Null, 0)
AnnBadScore == Ann(StrV("dog"), StrV("high"), Box(2, 2, 8, 8), Null, 0)
AnnSlow == Ann(StrV("cat"), Null, Box(3, 3, 9, 9), Null, 150)

\* a record: what the image_key and annotations_path expressions find on it,
\* and the clock (ms) read when its mapping begins (start_time)
RecAt(image_key, annotations, start_time) ==
    [image_key |-> image_key, annotations |-> annotations, start_time |-> start_time]
Rec(image_key, annotations) == RecAt(image_key, annotations, 0)
AnnList(anns) == [t |-> "list", items |-> anns]
NoAnnList == [t |-> "null", items |-> <<>>]
NotAnnList == [t |-> "obj", items |-> <<>>]

\* the records of the batches
Records ==
    { Rec(StrV("a.jpg"), AnnList(<<AnnCat>>)),
      Rec(StrV("b.jpg"), AnnList(<<AnnNoLabel, AnnZeroLabel, AnnDog>>)),
      Rec(StrV("c.jpg"), AnnList(<<AnnCat, AnnBadScore, AnnDog>>)),
      Rec(StrV("d.jpg"), NotAnnList),
      Rec(StrV("e.jpg"), AnnList(<<AnnCat, AnnSlow>>)),
      Rec(StrV("f.jpg"), AnnList(<<AnnEmptyLabel, AnnCat>>)),
      Rec(Null, AnnList(<<AnnCat>>)),
      Rec(NumV(0), NoAnnList),
      Rec(NumV(7), NoAnnList),
      Rec(StrV(""), AnnList(<<AnnDog>>)) }

RECURSIVE SeqsUpTo(_, _)
\* the sequences over S of length at most n
SeqsUpTo(S, n) ==
    IF n = 0 THEN {<<>>}
    ELSE LET shorter == SeqsUpTo(S, n - 1)
         IN  shorter \cup {Append(q, x) : q \in shorter, x \in S}

Lines == {BlankLine, BadLine} \cup {JsonLine(r) : r \in Records}
Texts == SeqsUpTo(Lines, MaxLines) \ {<<>>}

Caps == {NoCap} \cup {Cap(k) : k \in 1..MaxCap}

Batches == SeqsUpTo(Records, MaxRecords)
Docs == {BadDoc}
        \cup {ArrayDoc(rs) : rs \in Batches}
        \cup {ObjectDoc(Rec(StrV("a.jpg"), AnnList(<<AnnCat>>)), at) :
                at \in {NoAnnList, NotAnnList} \cup {AnnList(rs) : rs \in Batches}}
RecordPaths == {Null, StrV(""), StrV("images")}

----------------------------------------------------------------------------
(* The service *)

NoCall == [op |-> "none"]

\* _parse_records was not reached
NotParsed == [predictions |-> <<>>, errors |-> <<>>, mapped |-> <<>>, rest |-> <<>>]

Init ==
    /\ NoTables
    /\ template \in Templates
    /\ outcome = "ready"
    /\ call = NoCall
    /\ batch = <<>>
    /\ ret = <<>>
    /\ exc = ""
    /\ errors = <<>>
    /\ decoded = <<>>
    /\ mapped = <<>>

\* ParserService.parse_jsonl(data, max_records)
ParseJsonl ==
    /\ outcome = "ready"
    /\ \E data \in Texts, max_records \in Caps :
         \E d \in {DecodeLines(data, max_records)} :
         \E r \in {IF d.raised THEN NotParsed ELSE ParseRecords(template, d.records)} :
             /\ call' = [op |-> "parse_jsonl", data |-> data, max_records |-> max_records]
             /\ decoded' = d.decoded
             /\ IF d.raised
                THEN /\ outcome' = "raised"
                     /\ exc' = "Line " \o ToString(d.line) \o ": Invalid JSON"
                     /\ batch' = <<>>
                     /\ ret' = <<>>
                     /\ errors' = <<>>
                     /\ mapped' = <<>>
                ELSE /\ outcome' = "returned"
                     /\ exc' = ""
                     /\ batch' = d.records
                     /\ ret' = ReturnValue(r)
                     /\ errors' = r.errors
                     /\ mapped' = r.mapped
    /\ UNCHANGED <<template, tables>>

\* ParserService.parse_json(data, record_path); max_records is what the caller
\* of the json mode wants as the cap, parse_json has no parameter for it
ParseJson ==
    /\ outcome = "ready"
    /\ \E doc \in Docs, record_path \in RecordPaths, max_records \in Caps :
         \E x \in {IF doc.valid THEN ExtractRecords(doc, record_path)
                   ELSE [raised |-> TRUE, records |-> <<>>]} :
         \E r \in {IF x.raised THEN NotParsed ELSE ParseRecords(template, x.records)} :
             /\ call' = [op |-> "parse_json", doc |-> doc, record_path |-> record_path,
                         max_records |-> max_records]
             /\ decoded' = <<>>
             /\ IF x.raised
                THEN /\ outcome' = "raised"
                     /\ exc' = IF doc.valid THEN "Record path did not return an array"
                               ELSE "Invalid JSON"
                     /\ batch' = <<>>
                     /\ ret' = <<>>
                     /\ errors' = <<>>
                     /\ mapped' = <<>>
                ELSE /\ outcome' = "returned"
                     /\ exc' = ""
                     /\ batch' = x.records
                     /\ ret' = ReturnValue(r)
                     /\ errors' = r.errors
                     /\ mapped' = r.mapped
    /\ UNCHANGED <<template, tables>>

Next == ParseJsonl \/ ParseJson

Spec == Init /\ [][Next]_vars

----------------------------------------------------------------------------
(* The Record Mapper exercised through the Batch Driver: one call of        *)
(* _parse_records on a batch built around one record with a free            *)
(* annotations list.                                                        *)

\* a template of a user, built by _compile_expressions as the builtin ones:
\* score, xyxy bbox and nested polygon
TemplateSegmentation ==
    [name |-> "segmentation", score |-> TRUE,
     bbox |-> TRUE, bbox_format |-> "xyxy", bbox_normalized |-> FALSE,
     polygon |-> TRUE, polygon_format |-> "nested"]

MapperTemplates ==
    {TEMPLATE_YOLO, TEMPLATE_COCO, TEMPLATE_GENERIC_DETECTION, TemplateSegmentation}

Point(a, b) == ListV(<<NumV(a), NumV(b)>>)
NestedTriangle == ListV(<<Point(0, 0), Point(4, 0), Point(0, 6)>>)

\* annotations with a label, a score float() accepts and sound geometry
AnnBird == Ann(StrV("bird"), StrV("7"), Box(2, 2, 6, 8), NestedTriangle, 0)
\* the timeout check reads exactly the budget
AnnAtBudget == Ann(StrV("cat"), Null, Box(3, 3, 9, 9), Null, MAX_EXPRESSION_TIME_MS)
\* geometry failing its shape constraints
AnnShortBox == Ann(StrV("cat"), Null, ListV(<<NumV(1), NumV(2), NumV(3)>>), Triangle, 0)
AnnDictBox == Ann(StrV("dog"), Null, ObjV, NestedTriangle, 0)
AnnOddPoly ==
    Ann(StrV("cat"), Null, Box(1, 1, 5, 5),
        ListV(<<NumV(0), NumV(0), NumV(4), NumV(0), NumV(0), NumV(6), NumV(1)>>), 0)
AnnShortPoly ==
    Ann(StrV("dog"), Null, Box(1, 1, 5, 5),
        ListV(<<NumV(0), NumV(0), NumV(4), NumV(0)>>), 0)
AnnTwoPoints ==
    Ann(StrV("cat"), Null, Box(1, 1, 5, 5), ListV(<<Point(0, 0), Point(4, 0)>>), 0)

MapperAnns ==
    {AnnCat, AnnDog, AnnBird, AnnZeroLabel, AnnNoLabel, AnnBadScore, AnnSlow,
     AnnAtBudget, AnnShortBox, AnnDictBox, AnnOddPoly, AnnShortPoly, AnnTwoPoints}

\* the record mapped t ms later: start_time and every clock reading of its
\* annotation loop are t ms later
At(rec, t) ==
    RecAt(rec.image_key,
          IF rec.annotations.t # "list" THEN rec.annotations
          ELSE AnnList([k \in DOMAIN rec.annotations.items |->
                           [rec.annotations.items[k] EXCEPT !.clock = @ + t]]),
          rec.start_time + t)

\* a record whose mapping times out, and a record mapped whole
RecTimesOut == Rec(StrV("e.jpg"), AnnList(<<AnnCat, AnnSlow>>))
RecPlain == Rec(StrV("z.jpg"), AnnList(<<AnnDog>>))
\* the clock when the second record of a batch begins
SecondStart == 200

\* the batches: the record alone, after a record that timed out, and before
\* a plain record
MapperBatches ==
    LET recs == {Rec(StrV("img.jpg"), AnnList(anns)) : anns \in SeqsUpTo(MapperAnns, MaxAnns)}
    IN  {<<r>> : r \in recs}
        \cup {<<RecTimesOut, At(r, SecondStart)>> : r \in recs}
        \cup {<<r, At(RecPlain, SecondStart)>> : r \in recs}

InitMapper ==
    /\ NoTables
    /\ template \in MapperTemplates
    /\ outcome = "ready"
    /\ call = NoCall
    /\ batch = <<>>
    /\ ret = <<>>
    /\ exc = ""
    /\ errors = <<>>
    /\ decoded = <<>>
    /\ mapped = <<>>

\* ParserService._parse_records(records)
ParseRecordsCall ==
    /\ outcome = "ready"
    /\ \E records \in MapperBatches :
         \E r \in {ParseRecords(template, records)} :
             /\ call' = [op |-> "_parse_records", records |-> records]
             /\ outcome' = "returned"
             /\ exc' = ""
             /\ batch' = records
             /\ ret' = ReturnValue(r)
             /\ errors' = r.errors
             /\ mapped' = r.mapped
    /\ UNCHANGED <<template, decoded, tables>>

NextMapper == ParseRecordsCall

SpecMapper == InitMapper /\ [][NextMapper]_vars

----------------------------------------------------------------------------
(* The Geometry Normalizer on its own: one call of _parse_bbox or of        *)
(* _parse_polygon.                                                          *)

\* bbox values: four integers, and values that are too short, too long, not
\* lists, floats, or hold a string
BboxInputs ==
    {Box(a, b, c, d) : a, b, c, d \in 0..MaxCoord}
    \cup { ListV(<<NumV(1), NumV(2), NumV(3)>>),
           ListV(<<NumV(1), NumV(2), NumV(3), NumV(4), StrV("a")>>),
           ListV(<<FloatV(1), FloatV(2), FloatV(3), FloatV(4)>>),
           ListV(<<StrV("7"), NumV(1), NumV(2), NumV(3)>>),
           ListV(<<StrV("a"), NumV(1), NumV(2), NumV(3)>>),
           ListV(<<NumV(1), NumV(2), NumV(3), Null>>),
           ListV(<<>>), ObjV, StrV("abcd"), NumV(5), Null }

BboxFormats == {"xyxy", "xywh", "cxcywh", "abc"}

\* the elements of the polygon lists: points of integers and of floats, and
\* an element too short to be a point
PolygonElems ==
    {Point(0, 0), Point(4, 0), ListV(<<FloatV(0), FloatV(6)>>), ListV(<<NumV(2)>>)}

RECURSIVE Flatten(_)
\* the flat list of the components of the elements
Flatten(elems) ==
    IF elems = <<>> THEN <<>>
    ELSE (IF Head(elems).t = "list" THEN Head(elems).items ELSE <<Head(elems)>>)
             \o Flatten(Tail(elems))

\* lists with an element of three components, an element holding a string,
\* and a number in place of a point
OddPolygons ==
    { <<Point(0, 0), Point(4, 0), ListV(<<NumV(1), NumV(2), NumV(3)>>)>>,
      <<Point(0, 0), ListV(<<StrV("a"), NumV(1)>>), Point(4, 0)>>,
      <<Point(0, 0), Point(4, 0), NumV(5)>>,
      <<ListV(<<NumV(2)>>), NumV(5), Point(0, 0)>> }

\* polygon values: nested lists, their flattened forms, and values that are
\* not lists
PolygonInputs ==
    LET lists == SeqsUpTo(PolygonElems, MaxPoints) \cup OddPolygons
    IN  {ListV(elems) : elems \in lists}
        \cup {ListV(Flatten(elems)) : elems \in lists}
        \cup {ObjV, StrV("abcd"), Null}

PolygonFormats == {"flat", "nested", "abc"}

InitGeometry ==
    /\ NoTables
    /\ template = TEMPLATE_GENERIC_DETECTION
    /\ outcome = "ready"
    /\ call = NoCall
    /\ batch = <<>>
    /\ ret = <<>>
    /\ exc = ""
    /\ errors = <<>>
    /\ decoded = <<>>
    /\ mapped = <<>>

\* ParserService._parse_bbox(data, format, normalized)
ParseBboxCall ==
    /\ outcome = "ready"
    /\ \E data \in BboxInputs, format \in BboxFormats, normalized \in BOOLEAN :
         \E r \in {ParseBbox(data, format, normalized)} :
             /\ call' = [op |-> "_parse_bbox", data |-> data, format |-> format,
                         normalized |-> normalized]
             /\ outcome' = IF r.raised THEN "raised" ELSE "returned"
             /\ exc' = IF r.raised THEN "could not convert to float" ELSE ""
             /\ ret' = IF r.raised THEN <<>> ELSE [none |-> r.none, box |-> r.box]
    /\ UNCHANGED <<template, batch, errors, decoded, mapped, tables>>

\* ParserService._parse_polygon(data, format)
ParsePolygonCall ==
    /\ outcome = "ready"
    /\ \E data \in PolygonInputs, format \in PolygonFormats :
         \E r \in {ParsePolygon(data, format)} :
             /\ call' = [op |-> "_parse_polygon", data |-> data, format |-> format]
             /\ outcome' = IF r.raised THEN "raised" ELSE "returned"
             /\ exc' = IF r.raised THEN "invalid polygon element" ELSE ""
             /\ ret' = IF r.raised THEN <<>> ELSE [none |-> r.none, points |-> r.points]
    /\ UNCHANGED <<template, batch, errors, decoded, mapped, tables>>

NextGeometry == ParseBboxCall \/ ParsePolygonCall

SpecGeometry == InitGeometry /\ [][NextGeometry]_vars

----------------------------------------------------------------------------
(* Properties *)

\* the record indices of the collected errors
ErrorIndices == {errors[i].index : i \in DOMAIN errors}

RECURSIVE Survivors(_, _)
\* the Predictions of the records of rs whose mapping neither raises nor
\* returns None, in record order
Survivors(tpl, rs) ==
    IF rs = <<>> THEN <<>>
    ELSE LET m == ParseSingleRecord(tpl, Head(rs)) IN
         (IF ~m.raised /\ ~m.none THEN <<m.prediction>> ELSE <<>>)
             \o Survivors(tpl, Tail(rs))

\* s without its i-th element
Without(s, i) == SubSeq(s, 1, i - 1) \o SubSeq(s, i + 1, Len(s))

BadAt(lines) == {k \in DOMAIN lines : lines[k].kind = "bad"}
NonBlank(lines) == {k \in DOMAIN lines : lines[k].kind # "blank"}
\* the number of non-blank lines among the first k
NonBlankUpTo(lines, k) == Cardinality({j \in NonBlank(lines) : j <= k})
FirstBad(lines) == CHOOSE k \in BadAt(lines) : \A j \in BadAt(lines) : k <= j
Min(a, b) == IF a <= b THEN a ELSE b

\* C1: partial-failure isolation.  When the batch returns, the mapper was
\* called on every record of the batch, in order, whatever the records before
\* it did, and the predictions returned are exactly the Predictions of the
\* records whose mapping neither raised nor returned None, in record order.
C1_PartialFailureIsolation ==
    outcome = "returned" =>
        /\ mapped = [i \in 1..Len(batch) |-> i - 1]
        /\ ret.predictions = Survivors(template, batch)
        /\ ErrorIndices = {i - 1 : i \in {k \in DOMAIN batch :
                                ParseSingleRecord(template, batch[k]).raised}}

\* C1 witness: a batch of three records whose second record raised and whose
\* first and third records both gave a Prediction
C1_Witness ==
    /\ outcome = "returned"
    /\ Len(batch) = 3
    /\ ErrorIndices = {1}
    /\ Len(ret.predictions) = 2

\* C2: the value returned to the caller carries the collected per-record
\* errors next to the predictions (stated as the claim; the code returns the
\* predictions alone).
C2_ErrorsReturned ==
    (outcome = "returned" /\ errors # <<>>) =>
        /\ "errors" \in DOMAIN ret
        /\ ret.errors = errors

C4_JsonlCap ==
    (call.op = "parse_jsonl" /\ call.max_records.some /\ call.max_records.n >= 1) =>
        LET lines == StripSplit(call.data)
            N == call.max_records.n
        IN  /\ Len(decoded) <= N
            /\ Len(mapped) <= N
            /\ outcome = "returned" => Len(ret.predictions) <= N
            /\ \A i \in DOMAIN decoded : NonBlankUpTo(lines, decoded[i]) <= N
            /\ (\A k \in BadAt(lines) : NonBlankUpTo(lines, k) > N) =>
                   /\ outcome = "returned"
                   /\ Len(decoded) = Min(N, Cardinality(NonBlank(lines)))
                   /\ Len(mapped) = Len(decoded)

\* C4 witness: with max_records = 1 the first line was decoded and the
\* malformed line after it was not
C4_Witness ==
    /\ call.op = "parse_jsonl"
    /\ outcome = "returned"
    /\ call.max_records = Cap(1)
    /\ Len(call.data) >= 2
    /\ call.data[1].kind = "json"
    /\ call.data[2].kind = "bad"
    /\ decoded = <<1>>
    /\ mapped = <<0>>

\* C5: max_records = N >= 1 in json mode: at most N records are mapped and at
\* most N predictions returned (stated as the claim; parse_json has no cap).
C5_JsonCap ==
    (call.op = "parse_json" /\ call.max_records.some /\ call.max_records.n >= 1) =>
        /\ Len(mapped) <= call.max_records.n
        /\ outcome = "returned" => Len(ret.predictions) <= call.max_records.n

\* C6: whole-batch errors of the json mode.  A text that is no JSON document,
\* or a non-empty record path that does not find an array, makes parse_json
\* raise one error; no record is mapped and nothing is returned.
C6_JsonBatchError ==
    (/\ call.op = "parse_json"
     /\ \/ ~call.doc.valid
        \/ /\ call.record_path.t = "str"
           /\ call.record_path.s # ""
           /\ call.doc.at.t # "list") =>
        /\ outcome = "raised"
        /\ exc # ""
        /\ mapped = <<>>
        /\ errors = <<>>
        /\ ret = <<>>

\* C6 witness: the record path found an object, not an array
C6_Witness ==
    /\ call.op = "parse_json"
    /\ outcome = "raised"
    /\ call.doc.valid
    /\ call.record_path = StrV("images")
    /\ call.doc.at.t = "obj"

\* C7: a record whose image_key expression finds nothing is skipped silently.
\* It adds no error entry, and the predictions and the number of errors are
\* those of the batch without that record.
C7_MissingKeySkipped ==
    outcome = "returned" =>
        \A i \in DOMAIN batch :
            batch[i].image_key = Null =>
                LET others == ParseRecords(template, Without(batch, i))
                IN  /\ (i - 1) \notin ErrorIndices
                    /\ ret.predictions = others.predictions
                    /\ Len(errors) = Len(others.errors)

\* C7 witness: the middle record of three had no image key; the two around it
\* gave their Predictions and no error was collected
C7_Witness ==
    /\ outcome = "returned"
    /\ Len(batch) = 3
    /\ batch[2].image_key = Null
    /\ Len(ret.predictions) = 2
    /\ errors = <<>>

\* C8: one Prediction per record whose image_key expression finds a value,
\* whatever the value, and whose mapping does not raise; its image_key is the
\* string form of the value (stated as the claim).
C8_OnePredictionPerKey ==
    outcome = "returned" =>
        LET keyed == {i \in DOMAIN batch :
                         batch[i].image_key # Null /\ (i - 1) \notin ErrorIndices}
        IN  /\ Len(ret.predictions) = Cardinality(keyed)
            /\ \A i \in keyed : \E j \in DOMAIN ret.predictions :
                   ret.predictions[j].image_key = PyStr(batch[i].image_key)

\* C9: a record with an image key whose annotations_path finds nothing or no
\* list gives a Prediction for that key with no items, and no error (stated
\* as the claim).
C9_EmptyPrediction ==
    outcome = "returned" =>
        \A i \in DOMAIN batch :
            (batch[i].image_key # Null /\ batch[i].annotations.t # "list") =>
                /\ (i - 1) \notin ErrorIndices
                /\ \E j \in DOMAIN ret.predictions :
                       ret.predictions[j] =
                           [image_key |-> PyStr(batch[i].image_key), predictions |-> <<>>]

\* an annotation whose label expression yields nothing
LabelNothing(ann) == ann.label = Null \/ ann.label = StrV("")

\* the record without the annotations whose label yields nothing (those the
\* timeout check of their iteration lets through)
DropUnlabelled(rec) ==
    IF rec.annotations.t # "list" THEN rec
    ELSE RecAt(rec.image_key,
             AnnList(SelectSeq(rec.annotations.items,
                 LAMBDA a : ~(LabelNothing(a) /\ ~TimedOut(rec.start_time, a.clock)))),
             rec.start_time)

\* the annotations of the records of the batch
BatchAnnotations ==
    UNION {{batch[i].annotations.items[k] : k \in DOMAIN batch[i].annotations.items} :
              i \in DOMAIN batch}

\* the string forms of the labels of the batch that resolved to a non-empty value
PresentLabels == {PyStr(a.label) : a \in {b \in BatchAnnotations : ~LabelNothing(b)}}

\* C10: label invariant.  Every PredictionItem returned carries the string
\* form of a label that resolved to a non-empty value, and the annotations
\* whose label yields nothing change nothing else: the predictions and the
\* errors are those of the batch with these annotations taken out.
C10_LabelInvariant ==
    outcome = "returned" =>
        LET cleaned == ParseRecords(template,
                           [i \in DOMAIN batch |-> DropUnlabelled(batch[i])])
        IN  /\ \A j \in DOMAIN ret.predictions :
                   \A k \in DOMAIN ret.predictions[j].predictions :
                       /\ ret.predictions[j].predictions[k].label # ""
                       /\ ret.predictions[j].predictions[k].label \in PresentLabels
            /\ ret.predictions = cleaned.predictions
            /\ errors = cleaned.errors

\* C10 witness: a record whose first annotation has no label and the wrong
\* kind of score gave a Prediction with the item of a later annotation, and
\* no error was collected
C10_Witness ==
    /\ outcome = "returned"
    /\ errors = <<>>
    /\ \E i \in DOMAIN batch :
          /\ batch[i].annotations.t = "list"
          /\ Len(batch[i].annotations.items) >= 2
          /\ batch[i].annotations.items[1].label = Null
          /\ ~CanFloat(batch[i].annotations.items[1].score)
          /\ template.score
          /\ \E j \in DOMAIN ret.predictions :
                /\ ret.predictions[j].image_key = PyStr(batch[i].image_key)
                /\ Len(ret.predictions[j].predictions) >= 1

----------------------------------------------------------------------------
(* Properties of the Record Mapper *)

\* _parse_records was called and returned
MapperReturned == outcome = "returned" /\ call.op = "_parse_records"

\* the annotations of the i-th record of the batch
AnnsOf(i) == IF batch[i].annotations.t = "list" THEN batch[i].annotations.items ELSE <<>>

\* the Predictions returned for the i-th record of the batch (the image keys
\* of a batch of the mapper are distinct)
PredictionsOf(i) ==
    {ret.predictions[j] : j \in {m \in DOMAIN ret.predictions :
         ret.predictions[m].image_key = PyStr(batch[i].image_key)}}

\* the bbox of the annotation is one the Geometry Normalizer accepts
ValidBbox(tpl, ann) ==
    tpl.bbox /\ Truthy(ann.bbox) /\ ~BboxStep(tpl, ann).raised /\ ~BboxStep(tpl, ann).none

\* C11: an annotation is skipped at the label step only if its label is
\* absent.  In every record mapped without an error, each annotation whose
\* label resolved to a present value (the class id 0 included) and whose bbox
\* is valid has a bbox PredictionItem carrying the string form of that label
\* and the normalized box (stated as the claim).
C11_PresentLabelEmitted ==
    MapperReturned =>
        \A i \in DOMAIN batch :
            (i - 1) \notin ErrorIndices =>
                \A k \in DOMAIN AnnsOf(i) :
                    LET a == AnnsOf(i)[k] IN
                    (a.label # Null /\ ValidBbox(template, a)) =>
                        \E p \in PredictionsOf(i) :
                            \E m \in DOMAIN p.predictions :
                                /\ p.predictions[m].type = "bbox"
                                /\ p.predictions[m].label = PyStr(a.label)
                                /\ p.predictions[m].data = BboxStep(template, a).box

\* the PredictionItem is what the annotation gives for its bbox or its polygon
ItemFrom(item, ann) ==
    /\ item.label = PyStr(ann.label)
    /\ \/ /\ item.type = "bbox"
          /\ ValidBbox(template, ann)
          /\ item.data = BboxStep(template, ann).box
       \/ /\ item.type = "polygon"
          /\ ~PolygonStep(template, ann).raised /\ ~PolygonStep(template, ann).none
          /\ item.data = [points |-> PolygonStep(template, ann).points]

\* the index in the batch of the record the j-th Prediction returned is for
SourceRecord(j) ==
    CHOOSE i \in DOMAIN batch : PyStr(batch[i].image_key) = ret.predictions[j].image_key

\* C12: order preservation.  The Predictions returned are in the order of
\* their source records, and in every Prediction any two items are in the
\* order of the annotations they come from: the earlier item comes from an
\* annotation that is not after the annotation of the later item, and two
\* items of one annotation are its bbox item followed by its polygon item.
C12_OrderPreserved ==
    MapperReturned =>
        /\ \A j \in DOMAIN ret.predictions :
               \E i \in DOMAIN batch :
                   PyStr(batch[i].image_key) = ret.predictions[j].image_key
        /\ \A j1, j2 \in DOMAIN ret.predictions :
               j1 < j2 => SourceRecord(j1) < SourceRecord(j2)
        /\ \A j \in DOMAIN ret.predictions :
               LET items == ret.predictions[j].predictions
                   anns == AnnsOf(SourceRecord(j))
               IN  \A m1, m2 \in DOMAIN items :
                       m1 < m2 =>
                           \E k1, k2 \in DOMAIN anns :
                               /\ k1 <= k2
                               /\ ItemFrom(items[m1], anns[k1])
                               /\ ItemFrom(items[m2], anns[k2])
                               /\ (\A n1, n2 \in DOMAIN anns :
                                      (n1 < n2 /\ ItemFrom(items[m1], anns[n1]))
                                          => ~ItemFrom(items[m2], anns[n2]))
                                   => /\ items[m1].type = "bbox"
                                      /\ items[m2].type = "polygon"

\* C12 witness: two Predictions were returned, the first with the bbox item
\* and the polygon item of its first annotation followed by an item of its
\* second annotation, which has another label
C12_Witness ==
    /\ MapperReturned
    /\ Len(ret.predictions) = 2
    /\ Len(AnnsOf(1)) = 2
    /\ AnnsOf(1)[1].label # AnnsOf(1)[2].label
    /\ Len(ret.predictions[1].predictions) >= 3
    /\ ret.predictions[1].predictions[1].type = "bbox"
    /\ ret.predictions[1].predictions[2].type = "polygon"
    /\ ItemFrom(ret.predictions[1].predictions[2], AnnsOf(1)[1])
    /\ ItemFrom(ret.predictions[1].predictions[3], AnnsOf(1)[2])
    /\ ret.predictions[2].image_key = "z.jpg"

\* a bbox value that fails the shape constraints: not a sequence, or fewer
\* than 4 elements
BboxShapeFails(bbox) == bbox # Null /\ (bbox.t # "list" \/ Len(bbox.items) < 4)

\* a polygon list that fails the shape constraints of the format: flat of odd
\* length or fewer than 6 values, nested of fewer than 3 points
PolygonShapeFails(format, polygon) ==
    /\ polygon.t = "list"
    /\ \/ format = "flat" /\ (Len(polygon.items) % 2 = 1 \/ Len(polygon.items) < 6)
       \/ format = "nested" /\ Len(polygon.items) < 3

\* the annotation with its shape-failing geometry taken out
DropBadShapes(tpl, ann) ==
    [ann EXCEPT !.bbox = IF BboxShapeFails(@) THEN Null ELSE @,
                !.polygon = IF PolygonShapeFails(tpl.polygon_format, @) THEN Null ELSE @]

\* the record with the shape-failing geometry of its annotations taken out
WithoutBadShapes(tpl, rec) ==
    IF rec.annotations.t # "list" THEN rec
    ELSE RecAt(rec.image_key,
               AnnList([k \in DOMAIN rec.annotations.items |->
                           DropBadShapes(tpl, rec.annotations.items[k])]),
               rec.start_time)

OverBudget(i, k) ==
    AnnsOf(i)[k].clock - batch[i].start_time > MAX_EXPRESSION_TIME_MS

\* the score of the annotation is there and float() refuses it
BadScore(ann) == template.score /\ ann.score # Null /\ ~CanFloat(ann.score)

\* why the k-th iteration of the annotation loop of record i raises, if it does
Cause(i, k) ==
    LET a == AnnsOf(i)[k] IN
    IF OverBudget(i, k) THEN "timeout"
    ELSE IF ~Truthy(a.label) THEN "none"
    ELSE IF BadScore(a) THEN "score"
    ELSE IF BboxStep(template, a).raised \/ PolygonStep(template, a).raised THEN "geometry"
    ELSE "none"

\* why the mapping of record i raises: the cause of its first raising iteration
FirstCause(i) ==
    LET failing == {k \in DOMAIN AnnsOf(i) : Cause(i, k) # "none"}
    IN  IF failing = {} THEN "none"
        ELSE Cause(i, CHOOSE k \in failing : \A n \in failing : k <= n)

\* the errors collected for record i
ErrorsOf(i) == {errors[e].error : e \in {n \in DOMAIN errors : errors[n].index = i - 1}}

\* every record of the batch was mapped, in order
AllMapped == mapped = [i \in 1..Len(batch) |-> i - 1]

\* C19: per-record timeout.  A record whose annotation loop reaches an
\* iteration more than the budget after the record's own start raises the
\* timeout: it has no Prediction (the items of its earlier annotations are
\* discarded) and one per-record error.  A time of exactly the budget is not
\* a timeout.  Every record is still mapped, each against its own start: a
\* record none of whose iterations is over its own budget gets no timeout
\* error, and one with no failure at all gets its Prediction.
C19_RecordTimeout ==
    MapperReturned =>
        /\ AllMapped
        /\ \A i \in DOMAIN batch :
               /\ FirstCause(i) = "timeout" =>
                      /\ ErrorsOf(i) = {"Expression timeout exceeded"}
                      /\ PredictionsOf(i) = {}
               /\ (\A k \in DOMAIN AnnsOf(i) : ~OverBudget(i, k)) =>
                      "Expression timeout exceeded" \notin ErrorsOf(i)
               /\ FirstCause(i) = "none" =>
                      /\ ErrorsOf(i) = {}
                      /\ PredictionsOf(i) # {}

\* C19 witness: the first record gave an item and then timed out, and the
\* record after it, begun later than the budget after the first, was mapped
\* into a Prediction with an item; only the timeout was collected
C19_Witness ==
    /\ MapperReturned
    /\ Len(batch) = 2
    /\ ValidBbox(template, AnnsOf(1)[1]) /\ Cause(1, 1) = "none"
    /\ OverBudget(1, 2)
    /\ batch[2].start_time > MAX_EXPRESSION_TIME_MS
    /\ errors = <<[index |-> 0, error |-> "Expression timeout exceeded"]>>
    /\ Len(ret.predictions) = 1
    /\ ret.predictions[1].image_key = PyStr(batch[2].image_key)
    /\ Len(ret.predictions[1].predictions) >= 1

\* C20: a score float() refuses is treated as no score and does not abort
\* the record.  A record whose first failure would be such a score has no
\* error, and the bbox item of each such annotation is in its Prediction
\* with score absent (stated as the claim).
C20_BadScoreIsNoScore ==
    MapperReturned =>
        \A i \in DOMAIN batch :
            FirstCause(i) = "score" =>
                /\ ErrorsOf(i) = {}
                /\ \A k \in DOMAIN AnnsOf(i) :
                       LET a == AnnsOf(i)[k] IN
                       (Truthy(a.label) /\ BadScore(a) /\ ValidBbox(template, a)) =>
                           \E p \in PredictionsOf(i) :
                               \E m \in DOMAIN p.predictions :
                                   /\ p.predictions[m].type = "bbox"
                                   /\ p.predictions[m].label = PyStr(a.label)
                                   /\ p.predictions[m].score = Null

----------------------------------------------------------------------------
(* Properties of the Geometry Normalizer *)

BboxCalled == call.op = "_parse_bbox"
PolygonCalled == call.op = "_parse_polygon"

\* the bbox value is a list whose first four elements float() accepts
NumericBox(data) ==
    data.t = "list" /\ Len(data.items) >= 4 /\ \A i \in 1..4 : CanFloat(data.items[i])

\* C13: bbox format equivalence.  A box given by its corners as
\* [x0, y0, x1, y1] and normalized as xyxy, and the same box given as
\* [x0, y0, x1 - x0, y1 - y0] and normalized as xywh, return the same
\* canonical {x: x0, y: y0, width: x1 - x0, height: y1 - y0}.
C13_XyxyXywhEquivalence ==
    (BboxCalled /\ NumericBox(call.data)) =>
        LET c == [i \in 1..4 |-> FloatOf(call.data.items[i])] IN
        /\ call.format = "xyxy" =>
               /\ outcome = "returned" /\ ~ret.none
               /\ ret.box = [x |-> 2 * c[1], y |-> 2 * c[2],
                             width |-> 2 * (c[3] - c[1]), height |-> 2 * (c[4] - c[2])]
               /\ LET other == ParseBbox(Box(c[1], c[2], c[3] - c[1], c[4] - c[2]),
                                         "xywh", call.normalized)
                  IN  ~other.raised /\ ~other.none /\ other.box = ret.box
        /\ call.format = "xywh" =>
               /\ outcome = "returned" /\ ~ret.none
               /\ ret.box = [x |-> 2 * c[1], y |-> 2 * c[2],
                             width |-> 2 * c[3], height |-> 2 * c[4]]
               /\ LET other == ParseBbox(Box(c[1], c[2], c[1] + c[3], c[2] + c[4]),
                                         "xyxy", call.normalized)
                  IN  ~other.raised /\ ~other.none /\ other.box = ret.box

\* C13 witness: a box with corners away from the origin was normalized as
\* xyxy, and its size is not its far corner
C13_Witness ==
    /\ BboxCalled /\ outcome = "returned"
    /\ call.format = "xyxy"
    /\ ~ret.none
    /\ ret.box.x > 0 /\ ret.box.y > 0
    /\ ret.box.width > 0 /\ ret.box.height > 0
    /\ ret.box.width # 2 * FloatOf(call.data.items[3])

C15_UnknownFormatAbsent ==
    (BboxCalled /\ call.format \notin {"xyxy", "xywh", "cxcywh"}) =>
        outcome = "returned" /\ ret.none

\* Python ==, on two coordinates: an int and a float of one value are equal
PyEq(a, b) ==
    IF a.t \in {"num", "float"} /\ b.t \in {"num", "float"} THEN a.n = b.n ELSE a = b

\* Python ==, on two lists of points
PointsEq(ps, qs) ==
    /\ Len(ps) = Len(qs)
    /\ \A k \in DOMAIN ps :
           /\ Len(ps[k]) = Len(qs[k])
           /\ \A c \in DOMAIN ps[k] : PyEq(ps[k][c], qs[k][c])

\* a number of JSON: an int or a float
IsNumber(v) == v.t \in {"num", "float"}

\* a flat list of the coordinates of 3 points or more
FlatPolygon(data) ==
    /\ data.t = "list"
    /\ Len(data.items) >= 6 /\ Len(data.items) % 2 = 0
    /\ \A i \in DOMAIN data.items : IsNumber(data.items[i])

\* a nested list of 3 points or more, each of two coordinates
NestedPolygon(data) ==
    /\ data.t = "list"
    /\ Len(data.items) >= 3
    /\ \A i \in DOMAIN data.items :
           /\ data.items[i].t = "list"
           /\ Len(data.items[i].items) = 2
           /\ IsNumber(data.items[i].items[1]) /\ IsNumber(data.items[i].items[2])

\* the nested list a flat list is the flattened form of
Nest(data) ==
    ListV([k \in 1..(Len(data.items) \div 2) |->
              ListV(<<data.items[2 * k - 1], data.items[2 * k]>>)])

\* the points of a nested list
PointsOfNested(data) ==
    [k \in DOMAIN data.items |-> <<data.items[k].items[1], data.items[k].items[2]>>]

\* C17: polygon flat/nested equivalence.  Parsing the flattened form of a
\* polygon of n >= 3 points of numbers with format flat gives the points of
\* the nested list, and these are equal (as Python compares numbers) to what
\* parsing the nested list with format nested gives; parsing a nested list
\* gives points equal to its own and to those of its flattened form.
C17_FlatNestedEquivalence ==
    (PolygonCalled /\ call.data.t = "list") =>
        /\ (call.format = "flat" /\ FlatPolygon(call.data)) =>
               /\ outcome = "returned" /\ ~ret.none
               /\ ret.points = PointsOfNested(Nest(call.data))
               /\ LET other == ParsePolygon(Nest(call.data), "nested")
                  IN  ~other.raised /\ ~other.none /\ PointsEq(ret.points, other.points)
        /\ (call.format = "nested" /\ NestedPolygon(call.data)) =>
               /\ outcome = "returned" /\ ~ret.none
               /\ PointsEq(ret.points, PointsOfNested(call.data))
               /\ LET other == ParsePolygon(ListV(Flatten(call.data.items)), "flat")
                  IN  ~other.raised /\ ~other.none /\ PointsEq(ret.points, other.points)

\* C17 witness: the flattened form of a polygon of 4 points of integers was
\* parsed with format flat; the nested format gives the same points as
\* floats, equal to them and not identical
C17_Witness ==
    /\ PolygonCalled /\ outcome = "returned"
    /\ call.format = "flat"
    /\ FlatPolygon(call.data)
    /\ Len(call.data.items) = 8
    /\ ~ret.none
    /\ ret.points[1] # ret.points[2]
    /\ ret.points # ParsePolygon(Nest(call.data), "nested").points
    /\ PointsEq(ret.points, ParsePolygon(Nest(call.data), "nested").points)

\* C18: every polygon the normalizer emits has at least 3 points of exactly
\* 2 coordinates each (stated as the claim).
C18_AtLeastThreePoints ==
    (PolygonCalled /\ outcome = "returned" /\ ~ret.none) =>
        /\ Len(ret.points) >= 3
        /\ \A k \in DOMAIN ret.points : Len(ret.points[k]) = 2

----------------------------------------------------------------------------
(* The test-template endpoint (api/v1/parser_templates.py, test_template). *)
(* The two functions it calls, parse_jsonl_stream and parse_json_data, are  *)
(* not defined in services/parser.py; they are modelled from the            *)
(* specification of the Batch Driver: the result is {predictions, errors},  *)
(* a failure of the whole batch is an exception.                            *)

\* what a call of the Batch Driver gives: an exception, or a BatchResult
BatchRaise(msg) == [raised |-> TRUE, error |-> msg, predictions |-> <<>>, errors |-> <<>>]
BatchResult(r) == [raised |-> FALSE, error |-> "", predictions |-> r.predictions,
                   errors |-> r.errors]

\* the encodings str.encode knows
KnownEncodings == {"utf-8"}

\* parse_jsonl_stream(data, mapping, max_records)
ParseJsonlStream(mapping, data, max_records) ==
    LET d == DecodeLines(data, Cap(max_records)) IN
    IF d.raised THEN BatchRaise("Line " \o ToString(d.line) \o ": Invalid JSON")
    ELSE BatchResult(ParseRecords(mapping, d.records))

\* parse_json_data(data, mapping, record_path, max_records)
ParseJsonData(mapping, doc, record_path, max_records) ==
    IF ~doc.valid THEN BatchRaise("Invalid JSON")
    ELSE LET x == ExtractRecords(doc, record_path) IN
         IF x.raised THEN BatchRaise("Record path did not return an array")
         ELSE BatchResult(ParseRecords(mapping,
                  SubSeq(x.records, 1, Min(Len(x.records), max_records))))

\* the try block of test_template: the call of the Batch Driver, with the
\* encoding of the sample in jsonl mode
TryParse(mapping, req) ==
    IF req.input_type = "jsonl"
    THEN IF req.input_encoding \notin KnownEncodings
         THEN BatchRaise("unknown encoding: " \o req.input_encoding)
         ELSE ParseJsonlStream(mapping, req.sample_data, req.max_records)
    ELSE ParseJsonData(mapping, req.sample_data, req.record_path, req.max_records)

\* Success with the predictions not looked at
SuccessNoErrors(predictions, errs) == Len(errs) = 0

\* success=len(errors) == 0 and len(predictions) > 0
Success(predictions, errs) == Len(errs) = 0 /\ Len(predictions) > 0

\* ParseTestResponse(success, records_parsed, predictions, errors)
ParseTestResponse(predictions, errs) ==
    [success |-> Success(predictions, errs), records_parsed |-> Len(predictions),
     predictions |-> predictions, errors |-> errs]

\* the response of test_template to a request whose template was found
TestResponse(mapping, req) ==
    LET b == TryParse(mapping, req) IN
    IF b.raised
    THEN ParseTestResponse(<<>>, <<[error |-> "Parse failed: " \o b.error]>>)
    ELSE ParseTestResponse(b.predictions, b.errors)

\* where the request takes its template from: a stored template, an id
\* that is not stored, a template in the request, or nothing
TemplateSources == {"stored", "unknown_id", "inline", "none"}

\* the requests: jsonl samples of up to MaxRecords lines, json samples
TestRequests ==
    {[op |-> "test_template", source |-> src, input_type |-> "jsonl",
      input_encoding |-> enc, record_path |-> Null, sample_data |-> data,
      max_records |-> k] :
        src \in TemplateSources, enc \in {"utf-8", "utf-99"},
        data \in SeqsUpTo(Lines, MaxRecords) \ {<<>>}, k \in 1..MaxCap}
    \cup
    {[op |-> "test_template", source |-> src, input_type |-> "json",
      input_encoding |-> "utf-8", record_path |-> path, sample_data |-> doc,
      max_records |-> k] :
        src \in {"stored", "inline"}, path \in RecordPaths, doc \in Docs,
        k \in 1..MaxCap}

\* POST /parser-templates/test
TestTemplate ==
    /\ outcome = "ready"
    /\ \E req \in TestRequests :
         /\ call' = req
         /\ IF req.source \in {"unknown_id", "none"}
            THEN /\ outcome' = "raised"
                 /\ exc' = IF req.source = "unknown_id" THEN "Template not found"
                           ELSE "Either template_id or template must be provided"
                 /\ ret' = <<>>
            ELSE /\ outcome' = "returned"
                 /\ exc' = ""
                 /\ ret' = TestResponse(template, req)
    /\ UNCHANGED <<template, batch, errors, decoded, mapped, tables>>

NextTestTemplate == TestTemplate

SpecTestTemplate == Init /\ [][NextTestTemplate]_vars

\* test_template answered with a ParseTestResponse
TestAnswered == outcome = "returned" /\ call.op = "test_template"

\* C21: the test-template call reports success = true if and only if the
\* error list of the response is empty and the response has at least one
\* prediction; and when the whole batch fails the response has success =
\* false, no predictions, and one error describing the failure.
C21_TestSuccess ==
    TestAnswered =>
        /\ ret.success = (ret.errors = <<>> /\ ret.predictions # <<>>)
        /\ ret.records_parsed = Len(ret.predictions)
        /\ TryParse(template, call).raised =>
               /\ ~ret.success
               /\ ret.predictions = <<>>
               /\ ret.errors =
                      <<[error |-> "Parse failed: " \o TryParse(template, call).error]>>

\* C21 witness: a jsonl sample with a malformed line was answered with
\* success = false, no predictions and the error of the line
C21_Witness ==
    /\ TestAnswered
    /\ call.input_type = "jsonl"
    /\ call.input_encoding = "utf-8"
    /\ \E k \in DOMAIN call.sample_data : call.sample_data[k].kind = "bad"
    /\ ~ret.success
    /\ ret.predictions = <<>>
    /\ Len(ret.errors) = 1

----------------------------------------------------------------------------
(* Projects and their labels (api/v1/projects.py create_project,           *)
(* api/v1/labels.py set_labels and add_label).                              *)

\* projects created in one run
MaxProjects == 1
\* longest label list of a request
MaxLabels == 10
\* add_label is called on projects of fewer labels than this
MaxAddTo == 3

\* Python's None where a string is expected
None == "None"

\* no parser service is in use
NoParser ==
    /\ template = TEMPLATE_COCO
    /\ outcome = "ready"
    /\ call = NoCall
    /\ batch = <<>>
    /\ ret = <<>>
    /\ exc = ""
    /\ errors = <<>>
    /\ decoded = <<>>
    /\ mapped = <<>>

\* schemas.label.LabelCreate: shortcut is None or one of "1".."9"
LabelCreate(name, shortcut) == [name |-> name, shortcut |-> shortcut]

\* a label list of n labels with no shortcut given
LabelNames(n) == [i \in 1..n |-> LabelCreate("label" \o ToString(i), None)]

\* the label lists of the requests: up to MaxLabels labels, at most one of
\* them with a shortcut given
LabelLists ==
    {LabelNames(n) : n \in 1..MaxLabels}
        \cup UNION {{[LabelNames(n) EXCEPT ![i].shortcut = "5"] : i \in 1..n} :
                        n \in 1..MaxLabels}

\* create_project: label_data.shortcut or str(idx + 1) if idx < 9 else None
\* (a conditional expression binds weaker than or: the test idx < 9 decides
\* about the whole of `shortcut or str(idx + 1)`)
CreateProjectShortcut(shortcut, idx) ==
    IF idx < 9
    THEN IF shortcut # None THEN shortcut ELSE ToString(idx + 1)
    ELSE None

\* set_labels: label_data.shortcut or (str(idx + 1) if idx < 9 else None)
SetLabelsShortcut(shortcut, idx) ==
    IF shortcut # None THEN shortcut
    ELSE IF idx < 9 THEN ToString(idx + 1) ELSE None

\* models.label.Label
Label(project_id, name, shortcut, order) ==
    [project_id |-> project_id, name |-> name, shortcut |-> shortcut, order |-> order]

\* the labels of a project, in the order they were inserted
LabelsOf(project_id) == SelectSeq(labelRows, LAMBDA row : row.project_id = project_id)

\* POST /projects
CreateProject ==
    /\ Cardinality(projectRows) < MaxProjects
    /\ \E labels \in LabelLists \cup {<<>>} :
         LET id == Cardinality(projectRows) + 1 IN
         /\ call' = [op |-> "create_project", labels |-> labels]
         /\ projectRows' = projectRows \cup {id}
         /\ labelRows' = labelRows \o
                [i \in 1..Len(labels) |->
                    Label(id, labels[i].name,
                          CreateProjectShortcut(labels[i].shortcut, i - 1), i - 1)]
         /\ response' = [status |-> 201, project_id |-> id]
    /\ UNCHANGED <<idle, itemRows, annRows, eventRows, templateRows, userRows>>

\* PUT /projects/{project_id}/labels
SetLabels ==
    /\ \E project_id \in 1..(MaxProjects + 1), labels \in LabelLists :
         /\ call' = [op |-> "set_labels", project_id |-> project_id, labels |-> labels]
         /\ IF project_id \notin projectRows
            THEN /\ response' = [status |-> 404, project_id |-> project_id]
                 /\ UNCHANGED labelRows
            ELSE /\ labelRows' =
                        SelectSeq(labelRows, LAMBDA row : row.project_id # project_id) \o
                        [i \in 1..Len(labels) |->
                            Label(project_id, labels[i].name,
                                  SetLabelsShortcut(labels[i].shortcut, i - 1), i - 1)]
                 /\ response' = [status |-> 201, project_id |-> project_id]
    /\ UNCHANGED <<idle, projectRows, itemRows, annRows, eventRows, templateRows, userRows>>

\* the greatest number of a non-empty set of numbers
Max(S) == CHOOSE x \in S : \A y \in S : y <= x

\* add_label: max_order = result.scalar() or -1, where scalar() is the
\* greatest order of the project's labels, None when it has no label; the
\* order 0 is falsy as None is
MaxOrder(project_id) ==
    LET orders == {LabelsOf(project_id)[i].order : i \in DOMAIN LabelsOf(project_id)} IN
    IF orders = {} THEN -1
    ELSE IF Max(orders) = 0 THEN -1 ELSE Max(orders)

\* POST /projects/{project_id}/labels/add
AddLabel ==
    /\ \E project_id \in 1..(MaxProjects + 1), shortcut \in {None, "5"} :
         /\ Len(LabelsOf(project_id)) < MaxAddTo
         /\ call' = [op |-> "add_label", project_id |-> project_id,
                     label |-> LabelCreate("added", shortcut)]
         /\ IF project_id \notin projectRows
            THEN /\ response' = [status |-> 404, project_id |-> project_id]
                 /\ UNCHANGED labelRows
            ELSE /\ labelRows' = Append(labelRows,
                        Label(project_id, "added", shortcut, MaxOrder(project_id) + 1))
                 /\ response' = [status |-> 201, project_id |-> project_id]
    /\ UNCHANGED <<idle, projectRows, itemRows, annRows, eventRows, templateRows, userRows>>

InitLabels == NoParser /\ NoTables

NextLabels == CreateProject \/ SetLabels \/ AddLabel

SpecLabels == InitLabels /\ [][NextLabels]_vars

\* C22: on project creation the label at position idx of the request is
\* stored with the shortcut given for it when one is given, at any position,
\* otherwise with the string idx+1 when idx < 9, otherwise with none; and
\* this is the shortcut set_labels stores for the same list (stated as the
\* claim).
C22_CreateShortcutAssignment ==
    (call.op = "create_project") =>
        LET rows == LabelsOf(response.project_id) IN
        /\ Len(rows) = Len(call.labels)
        /\ \A i \in DOMAIN call.labels :
              /\ rows[i].shortcut =
                    (IF call.labels[i].shortcut # None THEN call.labels[i].shortcut
                     ELSE IF i - 1 < 9 THEN ToString(i) ELSE None)
              /\ rows[i].shortcut = SetLabelsShortcut(call.labels[i].shortcut, i - 1)

\* C30: add_label gives the new label an order strictly greater than the
\* order of every label already in the project, and no two labels of a
\* project share an order (stated as the claim).
C30_OrderUnique ==
    /\ (call.op = "add_label" /\ response.status = 201) =>
          LET rows == LabelsOf(call.project_id) IN
          \A i \in 1..(Len(rows) - 1) : rows[Len(rows)].order > rows[i].order
    /\ \A i, j \in DOMAIN labelRows :
          (i # j /\ labelRows[i].project_id = labelRows[j].project_id)
              => labelRows[i].order # labelRows[j].order

----------------------------------------------------------------------------
(* Items and their annotations (api/v1/items.py get_next_item,             *)
(* api/v1/annotations.py).  The ids of a table are the positions of its     *)
(* rows; the datasets are rows that no request of the model writes.         *)

\* most rows of table annotation_events
MaxEvents == 4
\* most rows of the annotation tables
MaxAnnotations == 1

\* models.item.ItemStatus
TODO == "todo"
IN_PROGRESS == "in_progress"
DONE == "done"
SKIPPED == "skipped"
DELETED == "deleted"

\* None where an id is expected; the ids of the rows start at 1
NoId == 0

\* the datasets, both of project 1
Datasets == {1, 2}
DatasetProject(dataset_id) == 1

\* models.item.Item as the importer creates it
Item(dataset_id) == [dataset_id |-> dataset_id, status |-> TODO, skip_reason |-> None]

\* the items imported: two items of one dataset, or one of each
ImportedItems == {<<Item(1), Item(1)>>, <<Item(2), Item(1)>>}

\* the labels: label 1 belongs to project 1, label 2 to project 2
ImportedLabels == <<Label(1, "cat", "1", 0), Label(2, "dog", "1", 0)>>

\* the item ids of the requests
ItemIds == 1..2

\* models.annotation.AnnotationEvent
AnnotationEvent(item_id, event_type) ==
    [dataset_id |-> itemRows[item_id].dataset_id, item_id |-> item_id,
     event_type |-> event_type]

\* ClassificationAnnotation, BBoxAnnotation, PolygonAnnotation : kind is the
\* table, data stands for the coordinates or the points
Annotation(kind, id, item_id, label_id, data) ==
    [kind |-> kind, id |-> id, item_id |-> item_id, label_id |-> label_id, data |-> data]

\* the id the database gives to a new row of a table
NewId(kind) ==
    LET ids == {a.id : a \in {b \in annRows : b.kind = kind}} IN
    IF ids = {} THEN 1 ELSE Max(ids) + 1

\* the bbox and polygon annotations of an item
Shapes(rows, item_id) == {a \in rows : a.item_id = item_id /\ a.kind \in {"bbox", "polygon"}}

\* raise HTTPException(status_code): nothing is written
Reject(status_code) ==
    /\ response' = [status |-> status_code, item |-> NoId]
    /\ UNCHANGED <<itemRows, annRows, eventRows>>

\* the item was not found
NotFound(item_id) == item_id \notin DOMAIN itemRows

\* if item.status == ItemStatus.DELETED, with no item ever refused
IsDeletedNever(item) == FALSE

\* if item.status == ItemStatus.DELETED
IsDeleted(item) == item.status = DELETED

\* the events fit into the table
Room(n) == Len(eventRows) + n <= MaxEvents

\* the item of a dataset get_next_item selects, the one a later item wins
\* over an earlier one
NextItemLatest(dataset_id) ==
    LET open == {i \in DOMAIN itemRows : /\ itemRows[i].dataset_id = dataset_id
                                         /\ itemRows[i].status \in {TODO, IN_PROGRESS}}
    IN  IF open = {} THEN NoId ELSE Max(open)

\* the item of a dataset get_next_item selects: status in (TODO,
\* IN_PROGRESS), order by id, limit 1
NextItem(dataset_id) ==
    LET open == {i \in DOMAIN itemRows : /\ itemRows[i].dataset_id = dataset_id
                                         /\ itemRows[i].status \in {TODO, IN_PROGRESS}}
    IN  IF open = {} THEN NoId ELSE CHOOSE i \in open : \A j \in open : i <= j

\* GET /datasets/{dataset_id}/next-item
GetNextItem ==
    /\ \E dataset_id \in Datasets \cup {3} :
         /\ call' = [op |-> "get_next_item", dataset_id |-> dataset_id]
         /\ IF dataset_id \notin Datasets THEN Reject(404)
            ELSE LET item_id == NextItem(dataset_id) IN
                 IF item_id = NoId
                 THEN /\ response' = [status |-> 200, item |-> NoId]
                      /\ UNCHANGED <<itemRows, annRows, eventRows>>
                 ELSE /\ Room(1)
                      /\ itemRows' = [itemRows EXCEPT ![item_id].status = IN_PROGRESS]
                      /\ eventRows' = Append(eventRows, AnnotationEvent(item_id, "open"))
                      /\ response' = [status |-> 200, item |-> item_id]
                      /\ UNCHANGED annRows
    /\ UNCHANGED <<idle, projectRows, labelRows, templateRows, userRows>>

\* POST /items/{item_id}/classification
SubmitClassification ==
    /\ \E item_id \in ItemIds :
         /\ call' = [op |-> "submit_classification", item_id |-> item_id]
         /\ IF NotFound(item_id) THEN Reject(404)
            ELSE IF IsDeleted(itemRows[item_id]) THEN Reject(400)
            ELSE /\ Room(2)
                 /\ Cardinality(annRows) < MaxAnnotations
                 /\ annRows' = annRows \cup
                        {Annotation("classification", NewId("classification"),
                                    item_id, NoId, "cat")}
                 /\ itemRows' = [itemRows EXCEPT ![item_id].status = DONE,
                                                 ![item_id].skip_reason = None]
                 /\ eventRows' = eventRows \o <<AnnotationEvent(item_id, "save"),
                                                AnnotationEvent(item_id, "submit_done")>>
                 /\ response' = [status |-> 201, item |-> item_id]
    /\ UNCHANGED <<idle, projectRows, labelRows, templateRows, userRows>>

\* POST /items/{item_id}/skip
SkipItem ==
    /\ \E item_id \in ItemIds, reason \in {"blurry"} :
         /\ call' = [op |-> "skip_item", item_id |-> item_id]
         /\ IF NotFound(item_id) THEN Reject(404)
            ELSE IF IsDeleted(itemRows[item_id]) THEN Reject(400)
            ELSE /\ Room(1)
                 /\ itemRows' = [itemRows EXCEPT ![item_id].status = SKIPPED,
                                                 ![item_id].skip_reason = reason]
                 /\ eventRows' = Append(eventRows, AnnotationEvent(item_id, "skip"))
                 /\ response' = [status |-> 200, item |-> item_id]
                 /\ UNCHANGED annRows
    /\ UNCHANGED <<idle, projectRows, labelRows, templateRows, userRows>>

\* POST /items/{item_id}/delete
DeleteItem ==
    /\ \E item_id \in ItemIds :
         /\ call' = [op |-> "delete_item", item_id |-> item_id]
         /\ IF NotFound(item_id) THEN Reject(404)
            ELSE IF IsDeleted(itemRows[item_id]) THEN Reject(400)
            ELSE /\ Room(1)
                 /\ itemRows' = [itemRows EXCEPT ![item_id].status = DELETED]
                 /\ eventRows' = Append(eventRows, AnnotationEvent(item_id, "delete"))
                 /\ response' = [status |-> 200, item |-> item_id]
                 /\ UNCHANGED annRows
    /\ UNCHANGED <<idle, projectRows, labelRows, templateRows, userRows>>

\* restore_item's update of the item, with the skip reason left as it is
RestoredKeepReason(item) == [item EXCEPT !.status = TODO]

\* restore_item's update of the item: status TODO, skip_reason None
Restored(item) == [item EXCEPT !.status = TODO, !.skip_reason = None]

\* POST /items/{item_id}/restore
RestoreItem ==
    /\ \E item_id \in ItemIds :
         /\ call' = [op |-> "restore_item", item_id |-> item_id]
         /\ IF NotFound(item_id) THEN Reject(404)
            ELSE IF itemRows[item_id].status # DELETED THEN Reject(400)
            ELSE /\ Room(1)
                 /\ itemRows' = [itemRows EXCEPT ![item_id] = Restored(itemRows[item_id])]
                 /\ eventRows' = Append(eventRows, AnnotationEvent(item_id, "restore"))
                 /\ response' = [status |-> 200, item |-> item_id]
                 /\ UNCHANGED annRows
    /\ UNCHANGED <<idle, projectRows, labelRows, templateRows, userRows>>

\* _validate_label: the label exists and belongs to the project
ValidLabel(label_id, project_id) ==
    label_id \in DOMAIN labelRows /\ labelRows[label_id].project_id = project_id

\* if item.status == ItemStatus.TODO: item.status = ItemStatus.IN_PROGRESS
Started(item) == IF item.status = TODO THEN [item EXCEPT !.status = IN_PROGRESS] ELSE item

\* create_bbox and create_polygon, which differ in the table
CreateShape(kind) ==
    /\ \E item_id \in ItemIds, label_id \in 1..2, data \in {"a"} :
         /\ call' = [op |-> "create_" \o kind, item_id |-> item_id]
         /\ IF NotFound(item_id) THEN Reject(404)
            ELSE IF IsDeleted(itemRows[item_id]) THEN Reject(400)
            ELSE IF ~ValidLabel(label_id, DatasetProject(itemRows[item_id].dataset_id))
            THEN Reject(400)
            ELSE /\ Cardinality(annRows) < MaxAnnotations
                 /\ annRows' = annRows \cup
                        {Annotation(kind, NewId(kind), item_id, label_id, data)}
                 /\ itemRows' = [itemRows EXCEPT ![item_id] = Started(itemRows[item_id])]
                 /\ response' = [status |-> 201, item |-> item_id]
                 /\ UNCHANGED eventRows
    /\ UNCHANGED <<idle, projectRows, labelRows, templateRows, userRows>>

\* POST /items/{item_id}/bboxes
CreateBbox == CreateShape("bbox")

\* POST /items/{item_id}/polygons
CreatePolygon == CreateShape("polygon")

\* the item of an annotation row
ItemOf(a) == a.item_id

\* update_bbox and update_polygon: the row is looked up by its id, the label
\* is validated when it changes, the fields given are written; the status of
\* the item is not looked at
UpdateShape(kind) ==
    /\ \E id \in 1..(MaxAnnotations + 1), label_id \in {NoId, 1, 2}, data \in {None, "b"} :
         /\ call' = [op |-> "update_" \o kind, id |-> id]
         /\ IF ~\E a \in annRows : a.kind = kind /\ a.id = id THEN Reject(404)
            ELSE LET a == CHOOSE b \in annRows : b.kind = kind /\ b.id = id IN
                 IF /\ label_id # NoId
                    /\ label_id # a.label_id
                    /\ ~ValidLabel(label_id, DatasetProject(itemRows[ItemOf(a)].dataset_id))
                 THEN Reject(400)
                 ELSE /\ annRows' = (annRows \ {a}) \cup
                            {[a EXCEPT !.label_id = IF label_id # NoId THEN label_id ELSE @,
                                       !.data = IF data # None THEN data ELSE @]}
                      /\ response' = [status |-> 200, item |-> ItemOf(a)]
                      /\ UNCHANGED <<itemRows, eventRows>>
    /\ UNCHANGED <<idle, projectRows, labelRows, templateRows, userRows>>

\* PUT /bboxes/{bbox_id}
UpdateBbox == UpdateShape("bbox")

\* PUT /polygons/{polygon_id}
UpdatePolygon == UpdateShape("polygon")

\* delete_bbox and delete_polygon: the row is looked up by its id and
\* deleted; the status of the item is not looked at
DeleteShape(kind) ==
    /\ \E id \in 1..(MaxAnnotations + 1) :
         /\ call' = [op |-> "delete_" \o kind, id |-> id]
         /\ IF ~\E a \in annRows : a.kind = kind /\ a.id = id THEN Reject(404)
            ELSE LET a == CHOOSE b \in annRows : b.kind = kind /\ b.id = id IN
                 /\ annRows' = annRows \ {a}
                 /\ response' = [status |-> 204, item |-> ItemOf(a)]
                 /\ UNCHANGED <<itemRows, eventRows>>
    /\ UNCHANGED <<idle, projectRows, labelRows, templateRows, userRows>>

\* DELETE /bboxes/{bbox_id}
DeleteBbox == DeleteShape("bbox")

\* DELETE /polygons/{polygon_id}
DeletePolygon == DeleteShape("polygon")

\* the batches, as the label ids of their bboxes and of their polygons: no
\* shape, one shape with a label of the project, one with a label of
\* another project
ShapeLists ==
    {[bboxes |-> <<>>, polygons |-> <<>>], [bboxes |-> <<1>>, polygons |-> <<>>],
     [bboxes |-> <<>>, polygons |-> <<1>>], [bboxes |-> <<2>>, polygons |-> <<>>]}

\* POST /items/{item_id}/annotations/batch: the bbox and polygon rows of the
\* item are deleted and the shapes of the request are created; when a label
\* is refused, the deletions are lost or kept with the transaction of the
\* session
SaveAnnotationsBatch ==
    /\ \E item_id \in ItemIds, batch_in \in ShapeLists :
         /\ call' = [op |-> "save_annotations_batch", item_id |-> item_id]
         /\ IF NotFound(item_id) THEN Reject(404)
            ELSE IF IsDeleted(itemRows[item_id]) THEN Reject(400)
            ELSE LET kept == annRows \ Shapes(annRows, item_id)
                     project_id == DatasetProject(itemRows[item_id].dataset_id)
                     bboxes == batch_in.bboxes
                     polygons == batch_in.polygons
                     ids(kind) == {a.id : a \in {b \in kept : b.kind = kind}}
                     new(kind, shapes) ==
                         {Annotation(kind, (IF ids(kind) = {} THEN 0 ELSE Max(ids(kind))) + k,
                                     item_id, shapes[k], "a") : k \in DOMAIN shapes}
                 IN
                 IF \/ \E k \in DOMAIN bboxes : ~ValidLabel(bboxes[k], project_id)
                    \/ \E n \in DOMAIN polygons : ~ValidLabel(polygons[n], project_id)
                 THEN /\ response' = [status |-> 400, item |-> NoId]
                      /\ annRows' \in {annRows, kept}
                      /\ UNCHANGED <<itemRows, eventRows>>
                 ELSE /\ Cardinality(kept) + Len(bboxes) + Len(polygons) <= MaxAnnotations
                      /\ annRows' = kept \cup new("bbox", bboxes) \cup new("polygon", polygons)
                      /\ itemRows' = IF bboxes # <<>> \/ polygons # <<>>
                                     THEN [itemRows EXCEPT ![item_id] = Started(itemRows[item_id])]
                                     ELSE itemRows
                      /\ response' = [status |-> 200, item |-> item_id]
                      /\ UNCHANGED eventRows
    /\ UNCHANGED <<idle, projectRows, labelRows, templateRows, userRows>>

\* POST /items/{item_id}/submit
SubmitAnnotations ==
    /\ \E item_id \in ItemIds :
         /\ call' = [op |-> "submit_annotations", item_id |-> item_id]
         /\ IF NotFound(item_id) THEN Reject(404)
            ELSE IF IsDeleted(itemRows[item_id]) THEN Reject(400)
            ELSE IF itemRows[item_id].status = DONE
            THEN /\ response' = [status |-> 200, item |-> item_id]
                 /\ UNCHANGED <<itemRows, annRows, eventRows>>
            ELSE /\ Room(1)
                 /\ itemRows' = [itemRows EXCEPT ![item_id].status = DONE,
                                                 ![item_id].skip_reason = None]
                 /\ eventRows' = Append(eventRows, AnnotationEvent(item_id, "submit_done"))
                 /\ response' = [status |-> 200, item |-> item_id]
                 /\ UNCHANGED annRows
    /\ UNCHANGED <<idle, projectRows, labelRows, templateRows, userRows>>

\* the database after the import of the items
InitItems ==
    /\ NoParser
    /\ projectRows = {1, 2}
    /\ labelRows = ImportedLabels
    /\ itemRows \in ImportedItems
    /\ annRows = {}
    /\ eventRows = <<>>
    /\ templateRows = {}
    /\ userRows = {}
    /\ response = NoResponse

NextItems ==
    \/ GetNextItem
    \/ SubmitClassification
    \/ SkipItem
    \/ DeleteItem
    \/ RestoreItem
    \/ CreateBbox
    \/ CreatePolygon
    \/ SaveAnnotationsBatch
    \/ SubmitAnnotations

SpecItems == InitItems /\ [][NextItems]_vars

\* the annotation endpoints with delete_item and restore_item
NextShapes ==
    \/ CreateBbox
    \/ UpdateBbox
    \/ DeleteBbox
    \/ CreatePolygon
    \/ UpdatePolygon
    \/ DeletePolygon
    \/ SaveAnnotationsBatch
    \/ DeleteItem
    \/ RestoreItem

SpecShapes == InitItems /\ [][NextShapes]_vars

\* the operations on an item that refuse a deleted item
GuardedOps ==
    {"submit_classification", "skip_item", "delete_item", "create_bbox",
     "create_polygon", "save_annotations_batch", "submit_annotations"}

\* C23: while an item is DELETED, each of submit_classification, skip_item,
\* delete_item, create_bbox, create_polygon, save_annotations_batch and
\* submit_annotations on it is answered with an error, leaves the items as
\* they are and writes no event; the only step that takes an item out of
\* DELETED is restore_item on it, which sets status TODO and skip_reason
\* none; and restore_item on an item that is not DELETED is answered with
\* an error and changes nothing.
C23_DeletedGuard ==
    [][/\ \A i \in DOMAIN itemRows :
            itemRows[i].status = DELETED =>
                /\ (call'.op \in GuardedOps /\ call'.item_id = i) =>
                       /\ response'.status = 400
                       /\ itemRows' = itemRows
                       /\ eventRows' = eventRows
                /\ itemRows'[i].status # DELETED =>
                       /\ call'.op = "restore_item"
                       /\ call'.item_id = i
                       /\ itemRows'[i].status = TODO
                       /\ itemRows'[i].skip_reason = None
       /\ \A i \in DOMAIN itemRows :
            (call'.op = "restore_item" /\ call'.item_id = i /\ itemRows[i].status # DELETED) =>
                /\ response'.status = 400
                /\ itemRows' = itemRows
                /\ eventRows' = eventRows
      ]_vars

\* C23 witness: an operation of the guarded ones was refused on an item that
\* was skipped and then deleted; the item has kept its skip reason
C23_Witness ==
    /\ call.op \in GuardedOps
    /\ call.op # "delete_item"
    /\ response.status = 400
    /\ itemRows[call.item_id].status = DELETED
    /\ itemRows[call.item_id].skip_reason = "blurry"

\* C24: while an item is DELETED, no step changes the set of its bbox
\* and polygon annotations (stated as the claim).
C24_DeletedAnnotationsFrozen ==
    [][\A i \in DOMAIN itemRows :
          (itemRows[i].status = DELETED /\ itemRows'[i].status = DELETED)
              => Shapes(annRows', i) = Shapes(annRows, i)]_vars

\* C25: an item has a skip_reason only if its status is SKIPPED or DELETED.
C25_SkipReasonOnlyWhenSkipped ==
    \A i \in DOMAIN itemRows :
        itemRows[i].skip_reason # None => itemRows[i].status \in {SKIPPED, DELETED}

\* C25 witness: an item that was skipped, deleted and restored is back in
\* TODO with no skip reason
C25_Witness ==
    \E i \in DOMAIN itemRows :
        /\ itemRows[i].status = TODO
        /\ itemRows[i].skip_reason = None
        /\ \E k, m \in DOMAIN eventRows :
              /\ k < m
              /\ eventRows[k].item_id = i /\ eventRows[k].event_type = "skip"
              /\ eventRows[m].item_id = i /\ eventRows[m].event_type = "restore"

\* the items of a dataset that are TODO or IN_PROGRESS
OpenItems(dataset_id) ==
    {i \in DOMAIN itemRows : /\ itemRows[i].dataset_id = dataset_id
                             /\ itemRows[i].status \in {TODO, IN_PROGRESS}}

\* the positions of the OPEN events of a dataset
Opens(dataset_id) ==
    {k \in DOMAIN eventRows : /\ eventRows[k].dataset_id = dataset_id
                              /\ eventRows[k].event_type = "open"}

\* the item get_next_item returned last for a dataset has been TODO or
\* IN_PROGRESS ever since: no event of an operation that changes its status
\* was written for it after the OPEN event
StillOpen(dataset_id) ==
    /\ Opens(dataset_id) # {}
    /\ LET k == Max(Opens(dataset_id)) IN
       \A m \in DOMAIN eventRows :
           (m > k /\ eventRows[m].item_id = eventRows[k].item_id)
               => eventRows[m].event_type = "open"

\* the item get_next_item returned last for a dataset
LastReturned(dataset_id) == eventRows[Max(Opens(dataset_id))].item_id

\* an item with a smaller id was restored after get_next_item returned
\* the last item of the dataset
RestoredSince(dataset_id, item_id) ==
    \E m \in DOMAIN eventRows :
        /\ m > Max(Opens(dataset_id))
        /\ eventRows[m].item_id = item_id
        /\ eventRows[m].event_type = "restore"

\* C26 as stated, its last part: a call of get_next_item returns the item the
\* call before it on the dataset returned, unless the status of that item
\* has left {TODO, IN_PROGRESS} since.
C26_SameItemUntilItLeaves ==
    [][(/\ call'.op = "get_next_item"
        /\ call'.dataset_id \in Datasets
        /\ StillOpen(call'.dataset_id))
           => response'.item = LastReturned(call'.dataset_id)]_vars

\* C26: get_next_item on a dataset returns the item with the smallest id
\* among the items of the dataset that are TODO or IN_PROGRESS, and no item
\* exactly when there is none; it changes nothing but the status of the item
\* returned, which is IN_PROGRESS after it, and writes one OPEN event for it;
\* a call that follows a call on the same dataset with no request between
\* them returns the same item; and a call returns another item than the
\* call before it on the dataset, while that item has been TODO or
\* IN_PROGRESS ever since, only if an item with a smaller id was restored.
C26_NextItem ==
    [][(call'.op = "get_next_item" /\ call'.dataset_id \in Datasets) =>
          LET d == call'.dataset_id
              item_id == response'.item
          IN  /\ response'.status = 200
              /\ (item_id = NoId) <=> (OpenItems(d) = {})
              /\ annRows' = annRows
              /\ item_id = NoId => (itemRows' = itemRows /\ eventRows' = eventRows)
              /\ item_id # NoId =>
                    /\ item_id \in OpenItems(d)
                    /\ \A j \in OpenItems(d) : item_id <= j
                    /\ itemRows' = [itemRows EXCEPT ![item_id].status = IN_PROGRESS]
                    /\ eventRows' = Append(eventRows,
                           [dataset_id |-> d, item_id |-> item_id, event_type |-> "open"])
              /\ (call = call' /\ response.status = 200 /\ response.item # NoId)
                    => item_id = response.item
              /\ (StillOpen(d) /\ item_id # LastReturned(d))
                    => (item_id < LastReturned(d) /\ RestoredSince(d, item_id))
      ]_vars

\* C26 witness: get_next_item returned item 2 of a dataset whose item 1 is
\* not TODO or IN_PROGRESS, after it had returned item 1
C26_Witness ==
    /\ call.op = "get_next_item"
    /\ response.status = 200
    /\ response.item = 2
    /\ itemRows[1].dataset_id = call.dataset_id
    /\ itemRows[1].status \in {DONE, SKIPPED, DELETED}
    /\ \E k \in DOMAIN eventRows :
          eventRows[k].item_id = 1 /\ eventRows[k].event_type = "open"

----------------------------------------------------------------------------
(* The parser templates of the database (api/v1/parser_templates.py        *)
(* create_template, update_template, delete_template).                      *)

\* most rows of table parser_templates
MaxTemplates == 4

\* models.parser_template.ParserTemplate; mapping stands for the dictionary
ParserTemplate(id, name, input_type, mapping, is_builtin) ==
    [id |-> id, name |-> name, input_type |-> input_type, mapping |-> mapping,
     is_builtin |-> is_builtin]

\* the rows of the builtin templates
BuiltinRows ==
    {ParserTemplate(1, "coco", "json", "coco", TRUE),
     ParserTemplate(2, "generic_detection", "jsonl", "generic_detection", TRUE)}

\* the template ids of the requests: the builtin ones, ids of templates of
\* users, and an id with no row
TemplateIds == 1..(MaxTemplates + 1)

\* the row of an id, a set of one row or of none
RowOf(template_id) == {t \in templateRows : t.id = template_id}

\* the name column is unique: the commit fails when another row has the name
NameTaken(name, template_id) ==
    \E t \in templateRows : t.name = name /\ t.id # template_id

\* POST /parser-templates
CreateTemplate ==
    /\ Cardinality(templateRows) < MaxTemplates
    /\ \E name \in {"mine", "coco"}, input_type \in {"json", "jsonl"} :
         /\ call' = [op |-> "create_template", name |-> name]
         /\ IF NameTaken(name, NoId)
            THEN /\ response' = [status |-> 500, item |-> NoId]
                 /\ UNCHANGED templateRows
            ELSE LET id == Max({t.id : t \in templateRows}) + 1 IN
                 /\ templateRows' = templateRows \cup
                        {ParserTemplate(id, name, input_type, "custom", FALSE)}
                 /\ response' = [status |-> 201, item |-> id]
    /\ UNCHANGED <<idle, projectRows, labelRows, itemRows, annRows, eventRows, userRows>>

\* if template.is_builtin, with no template ever refused
IsBuiltinNever(t) == FALSE

\* if template.is_builtin
IsBuiltin(t) == t.is_builtin

\* PUT /parser-templates/{template_id}: the fields that are not None are
\* written
UpdateTemplate ==
    /\ \E template_id \in TemplateIds, name \in {None, "yours", "coco"},
          input_type \in {None, "jsonl"}, mapping \in {None, "edited"} :
         /\ call' = [op |-> "update_template", template_id |-> template_id, name |-> name]
         /\ IF RowOf(template_id) = {}
            THEN /\ response' = [status |-> 404, item |-> NoId]
                 /\ UNCHANGED templateRows
            ELSE LET t == CHOOSE r \in RowOf(template_id) : TRUE IN
                 IF IsBuiltin(t)
                 THEN /\ response' = [status |-> 400, item |-> NoId]
                      /\ UNCHANGED templateRows
                 ELSE IF name # None /\ NameTaken(name, template_id)
                 THEN /\ response' = [status |-> 500, item |-> NoId]
                      /\ UNCHANGED templateRows
                 ELSE /\ templateRows' = (templateRows \ {t}) \cup
                            {[t EXCEPT !.name = IF name # None THEN name ELSE @,
                                       !.input_type = IF input_type # None
                                                      THEN input_type ELSE @,
                                       !.mapping = IF mapping # None THEN mapping ELSE @]}
                      /\ response' = [status |-> 200, item |-> template_id]
    /\ UNCHANGED <<idle, projectRows, labelRows, itemRows, annRows, eventRows, userRows>>

\* DELETE /parser-templates/{template_id}
DeleteTemplate ==
    /\ \E template_id \in TemplateIds :
         /\ call' = [op |-> "delete_template", template_id |-> template_id]
         /\ IF RowOf(template_id) = {}
            THEN /\ response' = [status |-> 404, item |-> NoId]
                 /\ UNCHANGED templateRows
            ELSE LET t == CHOOSE r \in RowOf(template_id) : TRUE IN
                 IF IsBuiltin(t)
                 THEN /\ response' = [status |-> 400, item |-> NoId]
                      /\ UNCHANGED templateRows
                 ELSE /\ templateRows' = templateRows \ {t}
                      /\ response' = [status |-> 204, item |-> template_id]
    /\ UNCHANGED <<idle, projectRows, labelRows, itemRows, annRows, eventRows, userRows>>

\* the database with the builtin templates in it
InitTemplates ==
    /\ NoParser
    /\ projectRows = {}
    /\ labelRows = <<>>
    /\ itemRows = <<>>
    /\ annRows = {}
    /\ eventRows = <<>>
    /\ templateRows = BuiltinRows
    /\ userRows = {}
    /\ response = NoResponse

NextTemplates == CreateTemplate \/ UpdateTemplate \/ DeleteTemplate

SpecTemplates == InitTemplates /\ [][NextTemplates]_vars

\* C27: after every request the builtin templates are present with all
\* their fields as they were; an update or a delete of a builtin template is
\* answered with an error and changes nothing; a template that a request
\* creates has is_builtin = false; and no request changes the is_builtin
\* flag of a template.
C27_BuiltinImmutable ==
    [][/\ BuiltinRows \subseteq templateRows
       /\ BuiltinRows \subseteq templateRows'
       /\ (/\ call'.op \in {"update_template", "delete_template"}
           /\ \E t \in BuiltinRows : t.id = call'.template_id)
              => (response'.status = 400 /\ templateRows' = templateRows)
       /\ \A u \in templateRows' :
              (RowOf(u.id) = {}) => (call'.op = "create_template" /\ ~u.is_builtin)
       /\ \A t \in templateRows, u \in templateRows' :
              t.id = u.id => t.is_builtin = u.is_builtin
      ]_vars

\* C27 witness: the update of a builtin template under the name of a
\* template that a request created was refused
C27_Witness ==
    /\ call.op = "update_template"
    /\ call.template_id \in {t.id : t \in BuiltinRows}
    /\ call.name = "yours"
    /\ response.status = 400
    /\ \E u \in templateRows : ~u.is_builtin
    /\ BuiltinRows \subseteq templateRows

----------------------------------------------------------------------------
(* User management (api/v1/users.py update_user, update_user_role,         *)
(* delete_user; api/dependencies.py require_role).                          *)

\* models.user.User
User(id, email, role, is_active) ==
    [id |-> id, email |-> email, role |-> role, is_active |-> is_active]

\* the roles of a user
Roles == {"admin", "annotator", "reviewer"}

\* the users registered: an active admin and two other users
RegisteredUsers ==
    {{User(1, "a@lab", "admin", TRUE), User(2, "b@lab", r2, a2),
      User(3, "c@lab", "reviewer", TRUE)} :
        r2 \in {"admin", "annotator"}, a2 \in BOOLEAN}

\* the user ids of the requests: the users, and an id with no row
UserIds == 1..4

\* the row of a user id, a set of one row or of none
UserOf(user_id) == {u \in userRows : u.id = user_id}

\* get_current_active_user and require_role(["admin"]): the status of the
\* error the dependency raises for the user of the request, 0 when it
\* raises none
Denied(current_user) ==
    IF ~current_user.is_active THEN 400
    ELSE IF current_user.role \notin {"admin"} THEN 403
    ELSE 0

\* the answer to a request that writes nothing
Refuse(status_code) ==
    /\ response' = [status |-> status_code, item |-> NoId]
    /\ UNCHANGED userRows

\* PUT /users/{user_id}: email and is_active are written when given
UpdateUser ==
    /\ \E admin \in userRows, user_id \in UserIds, email \in {None, "b@lab", "d@lab"},
          is_active \in {None, "true", "false"} :
         /\ call' = [op |-> "update_user", admin |-> admin.id, user_id |-> user_id,
                     is_active |-> is_active]
         /\ IF Denied(admin) # 0 THEN Refuse(Denied(admin))
            ELSE IF UserOf(user_id) = {} THEN Refuse(404)
            ELSE LET user == CHOOSE u \in UserOf(user_id) : TRUE IN
                 IF /\ email # None
                    /\ email # user.email
                    /\ \E u \in userRows : u.email = email
                 THEN Refuse(400)
                 ELSE /\ userRows' = (userRows \ {user}) \cup
                            {[user EXCEPT !.email = IF email # None THEN email ELSE @,
                                          !.is_active = IF is_active # None
                                                        THEN is_active = "true" ELSE @]}
                      /\ response' = [status |-> 200, item |-> user_id]
    /\ UNCHANGED <<idle, projectRows, labelRows, itemRows, annRows, eventRows, templateRows>>

\* PUT /users/{user_id}/role
UpdateUserRole ==
    /\ \E admin \in userRows, user_id \in UserIds, role \in Roles :
         /\ call' = [op |-> "update_user_role", admin |-> admin.id, user_id |-> user_id]
         /\ IF Denied(admin) # 0 THEN Refuse(Denied(admin))
            ELSE IF UserOf(user_id) = {} THEN Refuse(404)
            ELSE LET user == CHOOSE u \in UserOf(user_id) : TRUE IN
                 IF user.id = admin.id THEN Refuse(400)
                 ELSE /\ userRows' = (userRows \ {user}) \cup {[user EXCEPT !.role = role]}
                      /\ response' = [status |-> 200, item |-> user_id]
    /\ UNCHANGED <<idle, projectRows, labelRows, itemRows, annRows, eventRows, templateRows>>

\* DELETE /users/{user_id}
DeleteUser ==
    /\ \E admin \in userRows, user_id \in UserIds :
         /\ call' = [op |-> "delete_user", admin |-> admin.id, user_id |-> user_id]
         /\ IF Denied(admin) # 0 THEN Refuse(Denied(admin))
            ELSE IF UserOf(user_id) = {} THEN Refuse(404)
            ELSE LET user == CHOOSE u \in UserOf(user_id) : TRUE IN
                 IF user.id = admin.id THEN Refuse(400)
                 ELSE /\ userRows' = userRows \ {user}
                      /\ response' = [status |-> 204, item |-> user_id]
    /\ UNCHANGED <<idle, projectRows, labelRows, itemRows, annRows, eventRows, templateRows>>

\* the database with the registered users in it
InitUsers ==
    /\ NoParser
    /\ projectRows = {}
    /\ labelRows = <<>>
    /\ itemRows = <<>>
    /\ annRows = {}
    /\ eventRows = <<>>
    /\ templateRows = {}
    /\ userRows \in RegisteredUsers
    /\ response = NoResponse

NextUsers == UpdateUser \/ UpdateUserRole \/ DeleteUser

SpecUsers == InitUsers /\ [][NextUsers]_vars

\* C28: after every sequence of update_user, update_user_role and
\* delete_user requests, each by a user who is an active admin at that
\* moment, an active user of role admin exists (stated as the claim).
C28_AdminPreserved ==
    \E u \in userRows : u.role = "admin" /\ u.is_active

----------------------------------------------------------------------------
(* The importer (services/importer.py ImporterService.scan_directory).     *)

\* most rows of table items
MaxItemRows == 3
\* greatest limit of a scan
MaxLimit == 2

\* limit is None or 0: no limit
NoLimit == 0

\* IMAGE_EXTENSIONS
IMAGE_EXTENSIONS == {"jpg", "jpeg", "png", "webp", "gif", "bmp", "tiff"}

\* the files a directory may hold
File(stem, suffix) == [stem |-> stem, suffix |-> suffix]
Files == {File("a", "jpg"), File("b", "png"), File("notes", "txt")}

\* str(file_path.relative_to(root_path))
RelPath(f) == f.stem \o "." \o f.suffix

\* the listings of a directory: the files in it, in the order the file
\* system gives them
Listings ==
    {s \in SeqsUpTo(Files, Cardinality(Files)) :
        \A i, j \in DOMAIN s : i # j => s[i] # s[j]}

\* the root path of a dataset: no directory, or a directory with its listing
Directories ==
    {[exists |-> FALSE, listing |-> <<>>]}
        \cup {[exists |-> TRUE, listing |-> l] : l \in Listings}

\* a glob pattern: its text before, in and after the first pair of braces
\* (alts is empty when it has no braces)
Glob(prefix, alts, suffix) == [prefix |-> prefix, alts |-> alts, suffix |-> suffix]
Globs ==
    {Glob("*.jpg", <<>>, ""), Glob("*.", <<"jpg", "png">>, ""), Glob("*.", <<"jpg", "*">>, "")}

\* _expand_glob_pattern
ExpandGlobPattern(pattern) ==
    IF pattern.alts # <<>>
    THEN [i \in DOMAIN pattern.alts |-> pattern.prefix \o pattern.alts[i] \o pattern.suffix]
    ELSE <<pattern.prefix>>

\* root.glob(pattern) on a file
Matches(pattern, f) == pattern = "*.*" \/ pattern = "*." \o f.suffix

\* _is_image
IsImage(f) == f.suffix \in IMAGE_EXTENSIONS

\* _iter_files without the limit: the files of each pattern in turn
RECURSIVE AllFiles(_, _)
AllFiles(listing, patterns) ==
    IF patterns = <<>> THEN <<>>
    ELSE SelectSeq(listing, LAMBDA f : Matches(Head(patterns), f) /\ IsImage(f))
             \o AllFiles(listing, Tail(patterns))

\* _iter_files: one count for all the patterns, `if limit and count >= limit`
IterFiles(listing, patterns, limit) ==
    LET all == AllFiles(listing, patterns) IN
    IF limit # NoLimit THEN SubSeq(all, 1, Min(limit, Len(all))) ELSE all

\* models.item.Item with its path
ScannedItem(dataset_id, rel_path) ==
    [dataset_id |-> dataset_id, rel_path |-> rel_path, status |-> TODO,
     skip_reason |-> None]

\* existing_paths, read once before the scan
ExistingPaths(dataset_id) ==
    {itemRows[i].rel_path : i \in {j \in DOMAIN itemRows : itemRows[j].dataset_id = dataset_id}}

\* the loop of scan_directory over the files yielded: a file of
\* existing_paths is skipped, a file whose size cannot be read is an error,
\* every other file is a new item
ScanLoop(dataset_id, files, existing_paths, unreadable) ==
    LET skipped == SelectSeq(files, LAMBDA f : RelPath(f) \in existing_paths)
        failed == SelectSeq(files, LAMBDA f : RelPath(f) \notin existing_paths
                                               /\ f \in unreadable)
        added == SelectSeq(files, LAMBDA f : RelPath(f) \notin existing_paths
                                              /\ f \notin unreadable)
    IN  [new_items |-> [i \in DOMAIN added |-> ScannedItem(dataset_id, RelPath(added[i]))],
         added_count |-> Len(added), skipped_count |-> Len(skipped),
         errors |-> Len(failed)]

\* POST /datasets/{dataset_id}/scan
ScanDirectory ==
    /\ \E dataset_id \in Datasets, glob_pattern \in Globs, limit \in 0..MaxLimit,
          root_path \in Directories,
          unreadable \in {{}, {File("b", "png")}} :
         \E files \in {IterFiles(root_path.listing, ExpandGlobPattern(glob_pattern), limit)} :
         \E scan \in {ScanLoop(dataset_id, files, ExistingPaths(dataset_id), unreadable)} :
         /\ call' = [op |-> "scan_directory", dataset_id |-> dataset_id, limit |-> limit]
         /\ IF ~root_path.exists
            THEN /\ response' = [status |-> 200, added_count |-> 0, skipped_count |-> 0,
                                 errors |-> 1, total_count |-> 0]
                 /\ UNCHANGED itemRows
            ELSE /\ Len(itemRows) + scan.added_count <= MaxItemRows
                 /\ itemRows' = itemRows \o scan.new_items
                 /\ response' = [status |-> 200, added_count |-> scan.added_count,
                                 skipped_count |-> scan.skipped_count,
                                 errors |-> scan.errors,
                                 total_count |-> Cardinality({i \in DOMAIN itemRows' :
                                     itemRows'[i].dataset_id = dataset_id})]
    /\ UNCHANGED <<idle, projectRows, labelRows, annRows, eventRows, templateRows, userRows>>

InitImporter == NoParser /\ NoTables

NextImporter == ScanDirectory

SpecImporter == InitImporter /\ [][NextImporter]_vars

\* C29: no two items of a dataset have the same rel_path, and a scan with
\* a limit yields at most that many files: added + skipped + failed <= limit
\* (stated as the claim).
C29_ImportUnique ==
    /\ \A i, j \in DOMAIN itemRows :
          (i # j /\ itemRows[i].dataset_id = itemRows[j].dataset_id)
              => itemRows[i].rel_path # itemRows[j].rel_path
    /\ (call.op = "scan_directory" /\ call.limit # NoLimit) =>
          response.added_count + response.skipped_count + response.errors <= call.limit

====
